---------------------------- MODULE Spec2Model ----------------------------
(***************************************************************************)
(* A model of the README metadata checker (readme_extractor.py,            *)
(* dashboard_app.py).                                                      *)
(*                                                                         *)
(* Text is modelled character by character: a Python str is a sequence of  *)
(* one-character strings, so that substring tests, regular expressions,    *)
(* lower-casing and whitespace handling are computed as the code computes  *)
(* them.  The alphabet is ASCII plus the three Unicode dashes that         *)
(* normalize_text rewrites, plus the capital I with a dot above (U+0130),  *)
(* the one character whose lowercase is two characters, and the combining  *)
(* dot (U+0307) that ends its lowercase.                                   *)
(***************************************************************************)
EXTENDS Integers, Sequences, FiniteSets, TLC

VARIABLES
    records,      \* dashboard session: the list of record dicts (dashboard_app.py `records`)
    firstResult,  \* per record: what the first call of the rule engine on it returned
    last,         \* the last call made in the session and what it returned
    arg,          \* single-call driver: the argument a function is applied to
    out,          \* single-call driver: the outcome of the call(s) made on arg
    files,        \* downloader: the folder data/readmes, file name -> size
    site,         \* downloader: the portal (catalog pages, entries, anchors, requests that can fail)
    limit,        \* downloader: LIMIT, the limit main passes to build_download_plan
    pc,           \* downloader: where main() stands
    existing_ids, \* main: existing_ids
    plan,         \* build_download_plan: plan; then main: plan
    seen_ids,     \* build_download_plan: seen_ids
    max_pages,    \* build_download_plan: max_pages
    batches,      \* the max_pages of the calls of auto_discover_batch made for this plan
    fault,        \* the requests that failed in the latest call of auto_discover_batch
    discovered,   \* the URLs of the pools auto_discover_batch returned for this plan
    idx,          \* main: the position in plan of the next URL to download
    ok,           \* main: ok
    outcomes,     \* the calls of download_one made in this run: URL and what happened
    saved         \* the URLs whose file download_one saved in earlier runs

dlvars == <<files, site, limit, pc, existing_ids, plan, seen_ids, max_pages, batches, fault,
            discovered, idx, ok, outcomes, saved>>

vars == <<records, firstResult, last, arg, out, dlvars>>

-----------------------------------------------------------------------------
(* Characters *)

CR == "\r"
LF == "\n"
TAB == "\t"
SP == " "
ENDASH == "U+2013"
EMDASH == "U+2014"
MINUS == "U+2212"

LowerAlpha == <<"a", "b", "c", "d", "e", "f", "g", "h", "i", "j", "k", "l", "m", "n", "o", "p", "q", "r", "s", "t", "u", "v", "w", "x", "y", "z">>
UpperAlpha == <<"A", "B", "C", "D", "E", "F", "G", "H", "I", "J", "K", "L", "M", "N", "O", "P", "Q", "R", "S", "T", "U", "V", "W", "X", "Y", "Z">>
Digits == <<"0", "1", "2", "3", "4", "5", "6", "7", "8", "9">>

Range(s) == {s[i] : i \in 1..Len(s)}

Letters == Range(LowerAlpha) \cup Range(UpperAlpha)
DigitChars == Range(Digits)
\* U+0130 is a letter to the regex classes; the combining dot U+0307 is not
WordChars == Letters \cup DigitChars \cup {"_", "U+0130"}
Spaces == {SP, TAB, LF, CR}

\* Python regex class \s (restricted to the alphabet)
IsSpace(c) == c \in Spaces

\* Python regex class \d
IsDigit(c) == c \in DigitChars

\* Python regex class \w
IsWordChar(c) == c \in WordChars

\* str.lower(), character by character: the lowercase of U+0130 is an i
\* followed by the combining dot
LowerOf == [c \in Range(UpperAlpha) \cup {"U+0130"} |->
               IF c = "U+0130" THEN <<"i", "U+0307">>
               ELSE << LowerAlpha[CHOOSE i \in 1..Len(UpperAlpha) : UpperAlpha[i] = c] >>]

\* str.lower() on one character: a str of one or two characters
LowerChar(c) == IF c \in DOMAIN LowerOf THEN LowerOf[c] ELSE <<c>>

\* int(), digit by digit
ValueOf == [c \in DigitChars |-> (CHOOSE i \in 1..Len(Digits) : Digits[i] = c) - 1]

-----------------------------------------------------------------------------
(* Strings *)

\* str.replace(a, b) for single characters a, b
ReplaceChar(s, a, b) == [i \in 1..Len(s) |-> IF s[i] = a THEN b ELSE s[i]]

\* s[i:] starts with sub (1-based i)
MatchAt(s, i, sub) ==
    /\ i >= 1
    /\ i + Len(sub) - 1 <= Len(s)
    /\ \A k \in 1..Len(sub) : s[i + k - 1] = sub[k]

\* `sub in s`: sub is empty, or stands at some position of s
Contains(s, sub) ==
    \/ sub = <<>>
    \/ \E i \in 1..(Len(s) - Len(sub) + 1) : s[i] = sub[1] /\ SubSeq(s, i, i + Len(sub) - 1) = sub

\* s[i:] (1-based i), empty when i is past the end
From(s, i) == SubSeq(s, i, Len(s))

\* the positions of s, in order
Positions(s) == [i \in 1..Len(s) |-> i]

\* the characters of s at the positions kept (positions in increasing order), in order
CharsAt(s, kept) == [j \in 1..Len(kept) |-> s[kept[j]]]

\* the first position >= i of s holding a character of C, Len(s) + 1 when there is none
FirstOf(s, i, C) ==
    IF \E k \in i..Len(s) : s[k] \in C
    THEN CHOOSE k \in i..Len(s) : s[k] \in C /\ \A j \in i..(k - 1) : s[j] \notin C
    ELSE Len(s) + 1

\* the first position >= i of s holding a character outside C, Len(s) + 1 when there is none
FirstNotOf(s, i, C) ==
    IF \E k \in i..Len(s) : s[k] \notin C
    THEN CHOOSE k \in i..Len(s) : s[k] \notin C /\ \A j \in i..(k - 1) : s[j] \in C
    ELSE Len(s) + 1

RECURSIVE Lower(_)
\* str.lower(): character by character where every lowercase is one character,
\* else what stands before the first U+0130, its lowercase, and the rest
Lower(s) ==
    IF \A i \in 1..Len(s) : s[i] # "U+0130"
    THEN [i \in 1..Len(s) |-> LowerChar(s[i])[1]]
    ELSE Lower(SubSeq(s, 1, FirstOf(s, 1, {"U+0130"}) - 1))
         \o LowerChar("U+0130")
         \o Lower(From(s, FirstOf(s, 1, {"U+0130"}) + 1))

\* the last position of s holding a character outside C, 0 when there is none:
\* Len(s) less the number of characters of C that end s
LastNotOf(s, C) ==
    Len(s) - (CHOOSE d \in 0..Len(s) : d = Len(s) \/ s[Len(s) - d] \notin C)

\* str.lstrip()
LStrip(s) == From(s, FirstNotOf(s, 1, Spaces))

\* str.rstrip()
RStrip(s) == SubSeq(s, 1, LastNotOf(s, Spaces))

\* str.strip()
Strip(s) == RStrip(LStrip(s))

\* re.sub(r"\s+", " ", s): every maximal run of whitespace becomes one space,
\* which stands where the run began
CollapseWhitespace(s) ==
    CharsAt([i \in 1..Len(s) |-> IF IsSpace(s[i]) THEN SP ELSE s[i]],
            SelectSeq(Positions(s), LAMBDA i : ~IsSpace(s[i]) \/ i = 1 \/ ~IsSpace(s[i - 1])))

-----------------------------------------------------------------------------
(* Python values: None, str, bool, list *)

PyNone == [tag |-> "None"]
PyStr(s) == [tag |-> "str", s |-> s]
PyBool(b) == [tag |-> "bool", b |-> b]
PyList(items) == [tag |-> "list", items |-> items]

\* bool(v)
Truthy(v) ==
    CASE v.tag = "None" -> FALSE
      [] v.tag = "str" -> v.s # <<>>
      [] v.tag = "bool" -> v.b
      [] v.tag = "list" -> v.items # <<>>

\* `v or d`
Or(v, d) == IF Truthy(v) THEN v ELSE d

\* str(v) for None and str
Str(v) == IF v.tag = "None" THEN <<"N", "o", "n", "e">> ELSE v.s

\* dict.get(key): None when the key is missing
Get(record, key) == IF key \in DOMAIN record THEN record[key] ELSE PyNone

-----------------------------------------------------------------------------
(* Source name cleaning and normalization *)

PSEUDO_SOURCE_NAMES == {
    <<"c", "r", "e", "a", "t", "i", "v", "e", " ", "c", "o", "m", "m", "o", "n", "s">>,
    <<"d", "o", "c", "u", "m", "e", "n", "t", "s", " ", "o", "f", " ", "t", "h", "e", " ", "w", "o", "r", "l", "d", " ", "b", "a", "n", "k">>,
    <<"d", "o", "c", "u", "m", "e", "n", "t", " ", "o", "f", " ", "t", "h", "e", " ", "w", "o", "r", "l", "d", " ", "b", "a", "n", "k">>,
    <<"d", "o", "c", "u", "m", "e", "n", "t", "s", " ", "o", "f", " ", "w", "o", "r", "l", "d", " ", "b", "a", "n", "k">>,
    <<"d", "o", "c", "u", "m", "e", "n", "t", " ", "o", "f", " ", "w", "o", "r", "l", "d", " ", "b", "a", "n", "k">>,
    <<"d", "o", "c", "u", "m", "e", "n", "t", "s", " ", "o", "f", " ", "t", "h", "e", " ", "w", "o", "r", "l", "d", " ", "b", "a", "n", "k", " ", "g", "r", "o", "u", "p">> }

\* SOURCE_NAME_MAP with one alias sent to another alias instead of a canonical name
SOURCE_NAME_MAP_alias_to_alias ==
    (<<"w", "o", "r", "l", "d", " ", "b", "a", "n", "k">> :> <<"w", "o", "r", "l", "d", " ", "b", "a", "n", "k">>) @@
    (<<"t", "h", "e", " ", "w", "o", "r", "l", "d", " ", "b", "a", "n", "k">> :> <<"w", "o", "r", "l", "d", " ", "b", "a", "n", "k">>) @@
    (<<"w", "o", "r", "l", "d", " ", "b", "a", "n", "k", " ", "g", "r", "o", "u", "p">> :> <<"t", "h", "e", " ", "w", "o", "r", "l", "d", " ", "b", "a", "n", "k">>) @@
    (<<"w", "o", "r", "l", "d", " ", " ", "b", "a", "n", "k">> :> <<"w", "o", "r", "l", "d", " ", "b", "a", "n", "k">>) @@
    (<<"w", "d", "i">> :> <<"w", "o", "r", "l", "d", " ", "d", "e", "v", "e", "l", "o", "p", "m", "e", "n", "t", " ", "i", "n", "d", "i", "c", "a", "t", "o", "r", "s">>) @@
    (<<"w", "o", "r", "l", "d", " ", "d", "e", "v", "e", "l", "o", "p", "m", "e", "n", "t", " ", "i", "n", "d", "i", "c", "a", "t", "o", "r", "s">> :> <<"w", "o", "r", "l", "d", " ", "d", "e", "v", "e", "l", "o", "p", "m", "e", "n", "t", " ", "i", "n", "d", "i", "c", "a", "t", "o", "r", "s">>) @@
    (<<"w", "o", "r", "l", "d", " ", "d", "e", "v", "e", "l", "o", "p", "m", "e", "n", "t", " ", " ", "i", "n", "d", "i", "c", "a", "t", "o", "r", "s">> :> <<"w", "o", "r", "l", "d", " ", "d", "e", "v", "e", "l", "o", "p", "m", "e", "n", "t", " ", "i", "n", "d", "i", "c", "a", "t", "o", "r", "s">>) @@
    (<<"w", "o", "r", "l", "d", " ", "d", "e", "v", "e", "l", "o", "p", "m", "e", "n", "t", " ", "i", "n", "d", "i", "c", "a", "t", "o", "r", "s", " ", "(", "w", "d", "i", ")">> :> <<"w", "o", "r", "l", "d", " ", "d", "e", "v", "e", "l", "o", "p", "m", "e", "n", "t", " ", "i", "n", "d", "i", "c", "a", "t", "o", "r", "s">>) @@
    (<<"p", "i", "p">> :> <<"p", "o", "v", "e", "r", "t", "y", " ", "a", "n", "d", " ", "i", "n", "e", "q", "u", "a", "l", "i", "t", "y", " ", "p", "l", "a", "t", "f", "o", "r", "m">>) @@
    (<<"p", "o", "v", "e", "r", "t", "y", " ", "a", "n", "d", " ", "i", "n", "e", "q", "u", "a", "l", "i", "t", "y", " ", "p", "l", "a", "t", "f", "o", "r", "m">> :> <<"p", "o", "v", "e", "r", "t", "y", " ", "a", "n", "d", " ", "i", "n", "e", "q", "u", "a", "l", "i", "t", "y", " ", "p", "l", "a", "t", "f", "o", "r", "m">>) @@
    (<<"i", "m", "f">> :> <<"i", "n", "t", "e", "r", "n", "a", "t", "i", "o", "n", "a", "l", " ", "m", "o", "n", "e", "t", "a", "r", "y", " ", "f", "u", "n", "d">>) @@
    (<<"i", ".", "m", ".", "f", ".">> :> <<"i", "n", "t", "e", "r", "n", "a", "t", "i", "o", "n", "a", "l", " ", "m", "o", "n", "e", "t", "a", "r", "y", " ", "f", "u", "n", "d">>) @@
    (<<"i", "n", "t", "e", "r", "n", "a", "t", "i", "o", "n", "a", "l", " ", "m", "o", "n", "e", "t", "a", "r", "y", " ", "f", "u", "n", "d">> :> <<"i", "n", "t", "e", "r", "n", "a", "t", "i", "o", "n", "a", "l", " ", "m", "o", "n", "e", "t", "a", "r", "y", " ", "f", "u", "n", "d">>)

SOURCE_NAME_MAP ==
    (<<"w", "o", "r", "l", "d", " ", "b", "a", "n", "k">> :> <<"w", "o", "r", "l", "d", " ", "b", "a", "n", "k">>) @@
    (<<"t", "h", "e", " ", "w", "o", "r", "l", "d", " ", "b", "a", "n", "k">> :> <<"w", "o", "r", "l", "d", " ", "b", "a", "n", "k">>) @@
    (<<"w", "o", "r", "l", "d", " ", "b", "a", "n", "k", " ", "g", "r", "o", "u", "p">> :> <<"w", "o", "r", "l", "d", " ", "b", "a", "n", "k">>) @@
    (<<"w", "o", "r", "l", "d", " ", " ", "b", "a", "n", "k">> :> <<"w", "o", "r", "l", "d", " ", "b", "a", "n", "k">>) @@
    (<<"w", "d", "i">> :> <<"w", "o", "r", "l", "d", " ", "d", "e", "v", "e", "l", "o", "p", "m", "e", "n", "t", " ", "i", "n", "d", "i", "c", "a", "t", "o", "r", "s">>) @@
    (<<"w", "o", "r", "l", "d", " ", "d", "e", "v", "e", "l", "o", "p", "m", "e", "n", "t", " ", "i", "n", "d", "i", "c", "a", "t", "o", "r", "s">> :> <<"w", "o", "r", "l", "d", " ", "d", "e", "v", "e", "l", "o", "p", "m", "e", "n", "t", " ", "i", "n", "d", "i", "c", "a", "t", "o", "r", "s">>) @@
    (<<"w", "o", "r", "l", "d", " ", "d", "e", "v", "e", "l", "o", "p", "m", "e", "n", "t", " ", " ", "i", "n", "d", "i", "c", "a", "t", "o", "r", "s">> :> <<"w", "o", "r", "l", "d", " ", "d", "e", "v", "e", "l", "o", "p", "m", "e", "n", "t", " ", "i", "n", "d", "i", "c", "a", "t", "o", "r", "s">>) @@
    (<<"w", "o", "r", "l", "d", " ", "d", "e", "v", "e", "l", "o", "p", "m", "e", "n", "t", " ", "i", "n", "d", "i", "c", "a", "t", "o", "r", "s", " ", "(", "w", "d", "i", ")">> :> <<"w", "o", "r", "l", "d", " ", "d", "e", "v", "e", "l", "o", "p", "m", "e", "n", "t", " ", "i", "n", "d", "i", "c", "a", "t", "o", "r", "s">>) @@
    (<<"p", "i", "p">> :> <<"p", "o", "v", "e", "r", "t", "y", " ", "a", "n", "d", " ", "i", "n", "e", "q", "u", "a", "l", "i", "t", "y", " ", "p", "l", "a", "t", "f", "o", "r", "m">>) @@
    (<<"p", "o", "v", "e", "r", "t", "y", " ", "a", "n", "d", " ", "i", "n", "e", "q", "u", "a", "l", "i", "t", "y", " ", "p", "l", "a", "t", "f", "o", "r", "m">> :> <<"p", "o", "v", "e", "r", "t", "y", " ", "a", "n", "d", " ", "i", "n", "e", "q", "u", "a", "l", "i", "t", "y", " ", "p", "l", "a", "t", "f", "o", "r", "m">>) @@
    (<<"i", "m", "f">> :> <<"i", "n", "t", "e", "r", "n", "a", "t", "i", "o", "n", "a", "l", " ", "m", "o", "n", "e", "t", "a", "r", "y", " ", "f", "u", "n", "d">>) @@
    (<<"i", ".", "m", ".", "f", ".">> :> <<"i", "n", "t", "e", "r", "n", "a", "t", "i", "o", "n", "a", "l", " ", "m", "o", "n", "e", "t", "a", "r", "y", " ", "f", "u", "n", "d">>) @@
    (<<"i", "n", "t", "e", "r", "n", "a", "t", "i", "o", "n", "a", "l", " ", "m", "o", "n", "e", "t", "a", "r", "y", " ", "f", "u", "n", "d">> :> <<"i", "n", "t", "e", "r", "n", "a", "t", "i", "o", "n", "a", "l", " ", "m", "o", "n", "e", "t", "a", "r", "y", " ", "f", "u", "n", "d">>)

\* Lines 120-131: the cleaned lowercase form of a non-None input
\* (str, \r -> \n, collapse whitespace, strip, lower)
CleanLower(raw) ==
    Lower(Strip(CollapseWhitespace(ReplaceChar(Str(raw), CR, LF))))

normalize_source_name(raw) ==
    IF raw.tag = "None" THEN PyNone
    ELSE LET s == Strip(CollapseWhitespace(ReplaceChar(Str(raw), CR, LF)))
             s_lower == Lower(s)
         IN  IF s = <<>> THEN PyNone
             ELSE IF s_lower \in PSEUDO_SOURCE_NAMES THEN PyNone
             ELSE IF Contains(s_lower, <<"c", "r", "e", "a", "t", "i", "v", "e", " ", "c", "o", "m", "m", "o", "n", "s">>) THEN PyNone
             ELSE IF Contains(s_lower, <<"d", "o", "c", "u", "m", "e", "n", "t", "s", " ", "o", "f", " ", "t", "h", "e", " ", "w", "o", "r", "l", "d", " ", "b", "a", "n", "k">>) THEN PyNone
             ELSE IF s_lower \in DOMAIN SOURCE_NAME_MAP
                  THEN PyStr(SOURCE_NAME_MAP[s_lower])
             ELSE PyStr(s_lower)

-----------------------------------------------------------------------------
(* Year tokens: the regular expression \b((?:19|20)\d{2})\b *)

MIN_VALID_YEAR == 1990
MAX_VALID_YEAR == 2025

\* \b at the gap before s[i] (i = Len(s) + 1: the end of the string)
WordBoundary(s, i) ==
    LET before == i > 1 /\ IsWordChar(s[i - 1])
        after == i <= Len(s) /\ IsWordChar(s[i])
    IN  before # after

\* the pattern matches at position i
YearMatchAt(s, i) ==
    /\ i + 3 <= Len(s)
    /\ (s[i] = "1" /\ s[i + 1] = "9") \/ (s[i] = "2" /\ s[i + 1] = "0")
    /\ IsDigit(s[i + 2])
    /\ IsDigit(s[i + 3])
    /\ WordBoundary(s, i)
    /\ WordBoundary(s, i + 4)

\* int() of a 4-digit token
YearValue(s, i) ==
    1000 * ValueOf[s[i]] + 100 * ValueOf[s[i + 1]]
        + 10 * ValueOf[s[i + 2]] + ValueOf[s[i + 3]]

\* the years found, those after MAX_VALID_YEAR left out
FindYears_upto_max(s) ==
    LET at == SelectSeq(Positions(s), LAMBDA i : YearMatchAt(s, i) /\ YearValue(s, i) <= MAX_VALID_YEAR)
    IN  [j \in 1..Len(at) |-> YearValue(s, at[j])]

\* re.findall(r"\b((?:19|20)\d{2})\b", s), each token through int().  findall
\* takes the leftmost match and goes on from its end; two matches of this pattern
\* never overlap (a match is four word characters between two word boundaries),
\* so it returns the match at every position where the pattern matches.
FindYears(s) ==
    LET at == SelectSeq(Positions(s), LAMBDA i : YearMatchAt(s, i))
    IN  [j \in 1..Len(at) |-> YearValue(s, at[j])]

-----------------------------------------------------------------------------
(* PDF to text, text normalization *)

\* pdf_to_text with the length taken of the text as extracted, not stripped
pdf_to_text_unstripped(pdfminer_text, pypdf_text) ==
    IF pdfminer_text = <<>> \/ Len(pdfminer_text) < 60
    THEN pypdf_text
    ELSE pdfminer_text

\* pdf_to_text, given what the two extraction libraries return for the file
pdf_to_text(pdfminer_text, pypdf_text) ==
    IF pdfminer_text = <<>> \/ Len(Strip(pdfminer_text)) < 60
    THEN pypdf_text
    ELSE pdfminer_text

\* re.sub(r"-\n", "", t): a hyphen followed by a newline is removed with the
\* newline (two matches cannot overlap)
RemoveHyphenNewline(t) ==
    CharsAt(t, SelectSeq(Positions(t),
                         LAMBDA i : /\ ~(t[i] = "-" /\ i < Len(t) /\ t[i + 1] = LF)
                                    /\ ~(t[i] = LF /\ i > 1 /\ t[i - 1] = "-")))

\* re.sub(r"–|—|−", "-", t)
UnifyDashes(t) ==
    [i \in 1..Len(t) |-> IF t[i] \in {ENDASH, EMDASH, MINUS} THEN "-" ELSE t[i]]

\* re.sub(r"[ \t]+\n", "\n", t): a space or tab is removed when only spaces and
\* tabs stand between it and the next newline
StripTrailingBlanks(t) ==
    CharsAt(t, SelectSeq(Positions(t),
                         LAMBDA i : ~(/\ t[i] \in {SP, TAB}
                                      /\ FirstNotOf(t, i, {SP, TAB}) <= Len(t)
                                      /\ t[FirstNotOf(t, i, {SP, TAB})] = LF)))

\* re.sub(r"\n{3,}", "\n\n", t): of a run of three or more newlines the first two stay
CollapseBlankLines(t) ==
    CharsAt(t, SelectSeq(Positions(t),
                         LAMBDA i : ~(i >= 3 /\ t[i] = LF /\ t[i - 1] = LF /\ t[i - 2] = LF)))

normalize_text(t) ==
    CollapseBlankLines(StripTrailingBlanks(UnifyDashes(
        RemoveHyphenNewline(ReplaceChar(t, CR, LF)))))

-----------------------------------------------------------------------------
(* Heuristic extraction *)

\* the phrase list with the monetary fund's phrases moved to the front
possible_source_phrases_imf_first == <<
    <<"i", "m", "f">>,
    <<"i", "n", "t", "e", "r", "n", "a", "t", "i", "o", "n", "a", "l", " ", "m", "o", "n", "e", "t", "a", "r", "y", " ", "f", "u", "n", "d">>,
    <<"w", "o", "r", "l", "d", " ", "b", "a", "n", "k">>,
    <<"w", "o", "r", "l", "d", " ", "b", "a", "n", "k", " ", "g", "r", "o", "u", "p">>,
    <<"w", "d", "i">>,
    <<"w", "o", "r", "l", "d", " ", "d", "e", "v", "e", "l", "o", "p", "m", "e", "n", "t", " ", "i", "n", "d", "i", "c", "a", "t", "o", "r", "s">>,
    <<"p", "i", "p">>,
    <<"p", "o", "v", "e", "r", "t", "y", " ", "a", "n", "d", " ", "i", "n", "e", "q", "u", "a", "l", "i", "t", "y", " ", "p", "l", "a", "t", "f", "o", "r", "m">>,
    <<"w", "o", "r", "l", "d", " ", "h", "e", "a", "l", "t", "h", " ", "o", "r", "g", "a", "n", "i", "z", "a", "t", "i", "o", "n">>,
    <<"w", "h", "o">>,
    <<"u", "n", "i", "c", "e", "f">>,
    <<"u", "n", "e", "s", "c", "o">> >>

possible_source_phrases == <<
    <<"w", "o", "r", "l", "d", " ", "b", "a", "n", "k">>,
    <<"w", "o", "r", "l", "d", " ", "b", "a", "n", "k", " ", "g", "r", "o", "u", "p">>,
    <<"w", "d", "i">>,
    <<"w", "o", "r", "l", "d", " ", "d", "e", "v", "e", "l", "o", "p", "m", "e", "n", "t", " ", "i", "n", "d", "i", "c", "a", "t", "o", "r", "s">>,
    <<"p", "i", "p">>,
    <<"p", "o", "v", "e", "r", "t", "y", " ", "a", "n", "d", " ", "i", "n", "e", "q", "u", "a", "l", "i", "t", "y", " ", "p", "l", "a", "t", "f", "o", "r", "m">>,
    <<"i", "m", "f">>,
    <<"i", "n", "t", "e", "r", "n", "a", "t", "i", "o", "n", "a", "l", " ", "m", "o", "n", "e", "t", "a", "r", "y", " ", "f", "u", "n", "d">>,
    <<"w", "o", "r", "l", "d", " ", "h", "e", "a", "l", "t", "h", " ", "o", "r", "g", "a", "n", "i", "z", "a", "t", "i", "o", "n">>,
    <<"w", "h", "o">>,
    <<"u", "n", "i", "c", "e", "f">>,
    <<"u", "n", "e", "s", "c", "o">> >>

download_keywords == {
    <<"d", "o", "w", "n", "l", "o", "a", "d", " ", "t", "h", "e", " ", "d", "a", "t", "a">>,
    <<"d", "a", "t", "a", " ", "c", "a", "n", " ", "b", "e", " ", "d", "o", "w", "n", "l", "o", "a", "d", "e", "d">>,
    <<"a", "v", "a", "i", "l", "a", "b", "l", "e", " ", "f", "o", "r", " ", "d", "o", "w", "n", "l", "o", "a", "d">>,
    <<"d", "a", "t", "a", " ", "a", "r", "e", " ", "a", "v", "a", "i", "l", "a", "b", "l", "e", " ", "a", "t">>,
    <<"d", "a", "t", "a", " ", "i", "s", " ", "a", "v", "a", "i", "l", "a", "b", "l", "e", " ", "a", "t">>,
    <<"d", "a", "t", "a", "s", "e", "t", " ", "i", "s", " ", "a", "v", "a", "i", "l", "a", "b", "l", "e", " ", "a", "t">>,
    <<"t", "h", "i", "s", " ", "d", "a", "t", "a", " ", "i", "s", " ", "a", "v", "a", "i", "l", "a", "b", "l", "e", " ", "a", "t">>,
    <<"p", "u", "b", "l", "i", "c", "l", "y", " ", "a", "v", "a", "i", "l", "a", "b", "l", "e", " ", "d", "a", "t", "a">>,
    <<"c", "a", "n", " ", "b", "e", " ", "a", "c", "c", "e", "s", "s", "e", "d", " ", "a", "t">>,
    <<"a", "v", "a", "i", "l", "a", "b", "l", "e", " ", "o", "n", "l", "i", "n", "e", " ", "a", "t">> }

RECURSIVE SourcesFound(_, _, _)
\* lines 248-253: the loop over the phrase list, from phrase k, with the list found so far
SourcesFound(t, k, found) ==
    IF k > Len(possible_source_phrases) THEN found
    ELSE LET phrase == possible_source_phrases[k]
             norm == normalize_source_name(PyStr(phrase))
         IN  IF Contains(t, phrase) /\ Truthy(norm) /\ norm.s \notin Range(found)
             THEN SourcesFound(t, k + 1, Append(found, norm.s))
             ELSE SourcesFound(t, k + 1, found)

RECURSIVE SortedSeq(_)
\* sorted(S) for a set of integers
SortedSeq(S) ==
    IF S = {} THEN <<>>
    ELSE LET m == CHOOSE x \in S : \A y \in S : x <= y
         IN  <<m>> \o SortedSeq(S \ {m})

\* ai_extract_metadata(text) for text None or a str
ai_extract_metadata(text) ==
    IF ~Truthy(text)
    THEN [sources_ai |-> <<>>,
          years_ai |-> <<>>,
          has_downloadable_data_ai |-> FALSE,
          notes_ai |-> "empty text"]
    ELSE LET t == Lower(text.s)
         IN  [sources_ai |-> SourcesFound(t, 1, <<>>),
              years_ai |-> SortedSeq(Range(FindYears(t))),
              has_downloadable_data_ai |-> \E kw \in download_keywords : Contains(t, kw),
              notes_ai |-> "rule-based extraction; replace with LLM/NER in the future"]

-----------------------------------------------------------------------------
(* URLs *)

\* the characters outside the class [^\s)\"'>]
UrlStops == Spaces \cup {")", "\"", "'", ">"}

\* the end (exclusive) of the greedy run [^\s)\"'>]* that starts at position i
UrlEnd(s, i) == FirstOf(s, i, UrlStops)

\* the length of the prefix https?:// at position i, 0 when there is none
UrlPrefixLen(s, i) ==
    IF MatchAt(s, i, <<"h", "t", "t", "p", "s", ":", "/", "/">>) THEN 8
    ELSE IF MatchAt(s, i, <<"h", "t", "t", "p", ":", "/", "/">>) THEN 7
    ELSE 0

\* the pattern https?://[^\s)\"'>]+ matches at position i
UrlMatchAt(s, i) ==
    /\ UrlPrefixLen(s, i) > 0
    /\ i + UrlPrefixLen(s, i) <= Len(s)
    /\ s[i + UrlPrefixLen(s, i)] \notin UrlStops

\* re.findall(r"https?://[^\s)\"'>]+", s).  findall takes the leftmost match and
\* goes on from its end: a position where the pattern matches starts a URL unless
\* it lies inside the greedy run of a match further left.
FindUrls(s) ==
    LET at == SelectSeq(Positions(s),
                        LAMBDA i : /\ UrlMatchAt(s, i)
                                   /\ ~\E j \in 1..(i - 1) : UrlMatchAt(s, j) /\ UrlEnd(s, j) > i)
    IN  [k \in 1..Len(at) |-> SubSeq(s, at[k], UrlEnd(s, at[k]) - 1)]

\* extract_urls_from_text(text) for text a str
extract_urls_from_text(text) == IF text = <<>> THEN <<>> ELSE FindUrls(text)

PSEUDO_DATA_DOMAINS == {
    <<"s", "t", "a", "t", "a", ".", "c", "o", "m">>,
    <<"w", "w", "w", ".", "s", "t", "a", "t", "a", ".", "c", "o", "m">>,
    <<"d", "o", "c", "u", "m", "e", "n", "t", "s", ".", "w", "o", "r", "l", "d", "b", "a", "n", "k", ".", "o", "r", "g">>,
    <<"w", "w", "w", ".", "d", "o", "c", "u", "m", "e", "n", "t", "s", ".", "w", "o", "r", "l", "d", "b", "a", "n", "k", ".", "o", "r", "g">>,
    <<"c", "r", "e", "a", "t", "i", "v", "e", "c", "o", "m", "m", "o", "n", "s", ".", "o", "r", "g">>,
    <<"w", "w", "w", ".", "c", "r", "e", "a", "t", "i", "v", "e", "c", "o", "m", "m", "o", "n", "s", ".", "o", "r", "g">> }

\* is_pseudo_data_domain(domain) for domain a str
is_pseudo_data_domain(domain) ==
    LET d == Lower(domain)
    IN  d \in PSEUDO_DATA_DOMAINS \/ Contains(d, <<"s", "t", "a", "t", "a">>)

\* is_pseudo_data_url(url) for url None or a str
is_pseudo_data_url(url) ==
    LET u == Lower(Or(url, PyStr(<<>>)).s)
    IN  \/ Contains(u, <<"g", "i", "f", "t", " ", "c", "a", "r", "d">>)
        \/ Contains(u, <<"g", "i", "f", "t", "c", "a", "r", "d">>)
        \/ Contains(u, <<"g", "i", "f", "t", "-", "c", "a", "r", "d">>)

\* urllib.parse.scheme_chars
SchemeChars == Letters \cup DigitChars \cup {"+", "-", "."}

\* the bracketed hosts urllib accepts (ipaddress.IPv6Address), among those the model draws
ValidBracketedHosts == { <<":", ":", "1">> }

\* urlsplit: leading spaces and control characters stripped, then every tab,
\* carriage return and newline removed
RemoveUnsafe(url) == SelectSeq(LStrip(url), LAMBDA c : c \notin {TAB, CR, LF})

\* urlsplit: the position of the colon that ends the scheme, 0 when u has no scheme
SchemeEnd(u) ==
    IF \E i \in 2..Len(u) :
          /\ u[i] = ":"
          /\ \A k \in 1..(i - 1) : u[k] \in SchemeChars
          /\ u[1] \in Letters
    THEN FirstOf(u, 1, {":"})
    ELSE 0

\* urlsplit and _splitnetloc: the netloc of what follows the scheme
SplitNetloc(rest) ==
    IF MatchAt(rest, 1, <<"/", "/">>)
    THEN SubSeq(rest, 3, FirstOf(rest, 3, {"/", "?", "#"}) - 1)
    ELSE <<>>

\* netloc.partition('[')[2].partition(']')[0]
AfterOpenBracket(netloc) == From(netloc, FirstOf(netloc, 1, {"["}) + 1)
UpToCloseBracket(a) == SubSeq(a, 1, FirstOf(a, 1, {"]"}) - 1)

\* urlsplit: the checks of the brackets in the netloc, which raise ValueError
NetlocIsInvalid(netloc) ==
    \/ ("[" \in Range(netloc)) # ("]" \in Range(netloc))
    \/ /\ "[" \in Range(netloc)
       /\ UpToCloseBracket(AfterOpenBracket(netloc)) \notin ValidBracketedHosts

CheckedNetloc(netloc) ==
    IF NetlocIsInvalid(netloc) THEN [raised |-> TRUE, netloc |-> <<>>]
    ELSE [raised |-> FALSE, netloc |-> netloc]

AfterScheme(u) == From(u, SchemeEnd(u) + 1)

\* urllib.parse.urlparse(url).netloc for url a str: the netloc, or raised (ValueError)
urlparse_netloc(url) == CheckedNetloc(SplitNetloc(AfterScheme(RemoveUnsafe(url))))

\* _domain_of with no try/except: a parse failure propagates
DomainOfParse_unguarded(p) == [raised |-> p.raised, domain |-> Lower(p.netloc)]

\* lines 305-309: the lowercase netloc, the empty string when parsing raised
DomainOfParse(p) ==
    IF p.raised THEN [raised |-> FALSE, domain |-> <<>>]
    ELSE [raised |-> FALSE, domain |-> Lower(p.netloc)]

\* _domain_of(url) for url None or a str: the domain, and whether an exception left it
domain_of(url) ==
    IF url.tag = "None" THEN [raised |-> FALSE, domain |-> <<>>]
    ELSE DomainOfParse(urlparse_netloc(url.s))

-----------------------------------------------------------------------------
(* download_readmes.py: catalog IDs, file names, the links of a page *)

SEED_README_URLS == <<
    <<"h", "t", "t", "p", "s", ":", "/", "/", "r", "e", "p", "r", "o", "d", "u", "c", "i", "b", "i", "l", "i", "t", "y", ".", "w", "o", "r", "l", "d", "b", "a", "n", "k", ".", "o", "r", "g", "/", "i", "n", "d", "e", "x", ".", "p", "h", "p", "/", "c", "a", "t", "a", "l", "o", "g", "/", "2", "2", "2", "/", "d", "o", "w", "n", "l", "o", "a", "d", "/", "6", "4", "3", "/", "R", "E", "A", "D", "M", "E", ".", "p", "d", "f">> >>

\* a cap one step above the one of the code
hard_cap_pages_330 == 300 + 30

\* build_download_plan: hard_cap_pages = 300
hard_cap_pages == 300

\* list(dict.fromkeys(l)): the elements of l, each at its first place only
Dedupe(l) ==
    LET firsts == SelectSeq(Positions(l), LAMBDA i : \A j \in 1..(i - 1) : l[j] # l[i])
    IN  [k \in 1..Len(firsts) |-> l[firsts[k]]]

\* re.search(r"/catalog/(\d+)", url): the digits of the leftmost match, or None
extract_catalog_id_from_url(url) ==
    LET CatalogIdAt(i) == /\ MatchAt(url, i, <<"/", "c", "a", "t", "a", "l", "o", "g", "/">>)
                          /\ i + 9 <= Len(url)
                          /\ url[i + 9] \in DigitChars
    IN  IF \E i \in 1..Len(url) : CatalogIdAt(i)
        THEN LET i == CHOOSE i \in 1..Len(url) :
                          CatalogIdAt(i) /\ \A j \in 1..(i - 1) : ~CatalogIdAt(j)
             IN  PyStr(SubSeq(url, i + 9, FirstNotOf(url, i + 9, DigitChars) - 1))
        ELSE PyNone

\* re.match(r"(\d+)_README\.pdf$", fname): the leading digits, or None ($ also
\* matches before a final newline)
extract_catalog_id_from_filename(fname) ==
    IF /\ FirstNotOf(fname, 1, DigitChars) > 1
       /\ From(fname, FirstNotOf(fname, 1, DigitChars)) \in { <<"_", "R", "E", "A", "D", "M", "E", ".", "p", "d", "f">>, <<"_", "R", "E", "A", "D", "M", "E", ".", "p", "d", "f", "\n">> }
    THEN PyStr(SubSeq(fname, 1, FirstNotOf(fname, 1, DigitChars) - 1))
    ELSE PyNone

\* urlparse: the path without the parameters of its last segment
WithoutParams(p) == SubSeq(p, 1, FirstOf(p, LastNotOf(p, Range(p) \ {"/"}) + 1, {";"}) - 1)

\* urlparse(url).path for a url that parses: what follows the scheme and the
\* netloc, up to the fragment and the query, without parameters
urlparse_path(url) ==
    LET rest == AfterScheme(RemoveUnsafe(url))
    IN  WithoutParams(
            SubSeq(rest, IF MatchAt(rest, 1, <<"/", "/">>) THEN FirstOf(rest, 3, {"/", "?", "#"}) ELSE 1,
                   FirstOf(rest, IF MatchAt(rest, 1, <<"/", "/">>) THEN 3 ELSE 1, {"#", "?"}) - 1))

\* the positions at which the segments of path start that are neither empty nor "."
SegmentStarts(path) ==
    SelectSeq(Positions(path),
              LAMBDA i : /\ path[i] # "/"
                         /\ i = 1 \/ path[i - 1] = "/"
                         /\ SubSeq(path, i, FirstOf(path, i, {"/"}) - 1) # << "." >>)

\* Path(urlparse(url).path).name: the last segment of the path that is neither
\* empty nor ".", or ""
UrlBaseName(url) ==
    LET path == urlparse_path(url)
        starts == SegmentStarts(urlparse_path(url))
    IN  IF starts = <<>> THEN <<>>
        ELSE SubSeq(path, starts[Len(starts)], FirstOf(path, starts[Len(starts)], {"/"}) - 1)

\* re.sub(r'[\\/*?:"<>|]+', "_", name)
sanitize(name) ==
    LET SanitizedChars == {"\\", "/", "*", "?", ":", "\"", "<", ">", "|"}
        kept == SelectSeq(Positions(name),
                          LAMBDA i : \/ name[i] \notin SanitizedChars
                                     \/ i = 1
                                     \/ name[i - 1] \notin SanitizedChars)
    IN  [j \in 1..Len(kept) |-> IF name[kept[j]] \in SanitizedChars THEN "_" ELSE name[kept[j]]]

\* filename_from_url(url): the name of the path, README.pdf when it is empty or
\* has no dot; a README.pdf takes the catalog ID in front
filename_from_url(url) ==
    LET name == UrlBaseName(url)
        base == IF name = <<>> \/ "." \notin Range(name) THEN <<"R", "E", "A", "D", "M", "E", ".", "p", "d", "f">> ELSE name
        cid == extract_catalog_id_from_url(url)
    IN  sanitize(IF Lower(base) = <<"r", "e", "a", "d", "m", "e", ".", "p", "d", "f">> /\ Truthy(cid)
                 THEN cid.s \o <<"_", "R", "E", "A", "D", "M", "E", ".", "p", "d", "f">>
                 ELSE base)

\* list_existing_catalog_ids(out_dir), files the content of the folder (name -> size)
list_existing_catalog_ids(folder) ==
    { extract_catalog_id_from_filename(f).s :
        f \in { g \in DOMAIN folder : /\ Len(g) >= 4
                                     /\ From(g, Len(g) - 3) = <<".", "p", "d", "f">>
                                     /\ Truthy(extract_catalog_id_from_filename(g)) } }

\* download_one with no try/except: a failed request propagates
download_one_unguarded(url, folder, net) ==
    IF filename_from_url(url) \in DOMAIN folder /\ folder[filename_from_url(url)] > 0
    THEN [raised |-> FALSE, value |-> TRUE, result |-> "present", files |-> folder]
    ELSE IF net = "ok"
    THEN [raised |-> FALSE, value |-> TRUE, result |-> "downloaded",
          files |-> (filename_from_url(url) :> 1) @@ folder]
    ELSE [raised |-> TRUE, value |-> FALSE, result |-> "failed", files |-> folder]

\* download_one(url, out_dir): the value returned, what happened, and the folder
\* afterwards; net says whether the request and the writing of the file succeed.
\* The ".part" file a failed write leaves behind is not kept: no code reads it.
download_one(url, folder, net) ==
    IF filename_from_url(url) \in DOMAIN folder /\ folder[filename_from_url(url)] > 0
    THEN [raised |-> FALSE, value |-> TRUE, result |-> "present", files |-> folder]
    ELSE IF net = "ok"
    THEN [raised |-> FALSE, value |-> TRUE, result |-> "downloaded",
          files |-> (filename_from_url(url) :> 1) @@ folder]
    ELSE [raised |-> FALSE, value |-> FALSE, result |-> "failed", files |-> folder]

-----------------------------------------------------------------------------
(* download_readmes.py: discovery *)

\* line 165: the test an anchor passes to be taken as a README download;
\* RE_DOWNLOAD ignores case and is searched for in the href
AcceptsLink(a) ==
    LET h == Lower(a.href)
        idEnd(i) == FirstNotOf(h, i + 9, DigitChars)
        fileEnd(i) == FirstNotOf(h, idEnd(i) + 10, DigitChars)
        ReDownloadAt(i) ==
            /\ MatchAt(h, i, <<"/", "c", "a", "t", "a", "l", "o", "g", "/">>)
            /\ idEnd(i) > i + 9
            /\ MatchAt(h, idEnd(i), <<"/", "d", "o", "w", "n", "l", "o", "a", "d", "/">>)
            /\ fileEnd(i) > idEnd(i) + 10
            /\ From(h, fileEnd(i)) \in { <<>>, << LF >>, <<"/", "r", "e", "a", "d", "m", "e", ".", "p", "d", "f">>, <<"/", "r", "e", "a", "d", "m", "e", ".", "p", "d", "f", "\n">> }
    IN  /\ Contains(a.href, <<"/", "d", "o", "w", "n", "l", "o", "a", "d", "/">>)
        /\ \/ \E i \in 1..Len(h) : ReDownloadAt(i)
           \/ Contains(Lower(a.text), <<"r", "e", "a", "d", "m", "e">>)
           \/ Contains(Lower(a.text), <<"r", "e", "a", "d", " ", "m", "e">>)

\* _collect_downloads_from_page on a page with the given anchors; failed says
\* that the request for the page raised.  urljoin(BASE, href) is modelled for an
\* href that is an absolute URL or an absolute path without dot segments.
collect_downloads_from_page(anchors, failed) ==
    IF failed THEN <<>>
    ELSE LET accepted == SelectSeq(anchors, AcceptsLink)
             links == [k \in 1..Len(accepted) |->
                          IF SchemeEnd(accepted[k].href) > 0
                          THEN accepted[k].href
                          ELSE <<"h", "t", "t", "p", "s", ":", "/", "/", "r", "e", "p", "r", "o", "d", "u", "c", "i", "b", "i", "l", "i", "t", "y", ".", "w", "o", "r", "l", "d", "b", "a", "n", "k", ".", "o", "r", "g">> \o accepted[k].href]
         IN  Dedupe(SelectSeq(links, LAMBDA u : Contains(u, <<"/", "d", "o", "w", "n", "l", "o", "a", "d", "/">>)))

RECURSIVE discover_catalog_items_from(_, _, _, _, _)
\* discover_catalog_items, from the given page on, with the items found so far:
\* the listing stops at max_pages, at the page whose request fails, and at the
\* first page that shows no new entry
discover_catalog_items_from(listing, pages, fail_page, page, items) ==
    IF page > pages \/ page = fail_page \/ page > Len(listing)
    THEN items
    ELSE LET new == Dedupe(SelectSeq(listing[page], LAMBDA x : x \notin Range(items)))
         IN  IF new = <<>> THEN items
             ELSE discover_catalog_items_from(listing, pages, fail_page, page + 1, items \o new)

RECURSIVE links_of_items(_, _, _, _)
\* auto_discover_batch: pool += find_readme_links_on_item(item), from the k-th
\* item on; an item gives the links of its page, then those of its
\* related-materials tab, each link once
links_of_items(portal, items, fail_item, k) ==
    IF k > Len(items) THEN <<>>
    ELSE Dedupe(collect_downloads_from_page(portal.items[items[k]].main, items[k] = fail_item)
                \o collect_downloads_from_page(portal.items[items[k]].related, FALSE))
         \o links_of_items(portal, items, fail_item, k + 1)

\* auto_discover_batch(max_pages) on a site, with the requests that fail in this batch
auto_discover_batch(portal, pages, failing) ==
    Dedupe(links_of_items(portal,
                          discover_catalog_items_from(portal.listing, pages, failing.page, 1, <<>>),
                          failing.item, 1))

-----------------------------------------------------------------------------
(* download_readmes.py: the plan *)

\* lines 233-236 without the test of seen_ids
ShouldSkip_ignoring_seen(cid, existing, seen) ==
    \/ ~Truthy(cid)
    \/ cid.s \in existing

\* lines 214-218 and 233-236: the URL is passed over
ShouldSkip(cid, existing, seen) ==
    \/ ~Truthy(cid)
    \/ cid.s \in existing
    \/ cid.s \in seen

RECURSIVE TakeNew(_, _, _, _, _)
\* the loop over the seeds (lines 213-222) and over a pool (lines 232-240), from
\* the k-th URL on: st holds plan and seen_ids, and hit says that the loop was
\* left because the plan was full after an append
TakeNew(urls, k, st, lim, existing) ==
    IF k > Len(urls) THEN st
    ELSE IF ShouldSkip(extract_catalog_id_from_url(urls[k]), existing, st.seen_ids)
    THEN TakeNew(urls, k + 1, st, lim, existing)
    ELSE IF Len(st.plan) + 1 >= lim
    THEN [plan |-> Append(st.plan, urls[k]),
          seen_ids |-> st.seen_ids \cup { extract_catalog_id_from_url(urls[k]).s },
          hit |-> TRUE]
    ELSE TakeNew(urls, k + 1,
                 [plan |-> Append(st.plan, urls[k]),
                  seen_ids |-> st.seen_ids \cup { extract_catalog_id_from_url(urls[k]).s },
                  hit |-> FALSE],
                 lim, existing)

-----------------------------------------------------------------------------
(* Review rule engine *)

\* the outcome of a call: it returned value, or an exception left it
Returned(v) == [raised |-> FALSE, value |-> v]
Raised == [raised |-> TRUE, value |-> FALSE]

\* record.get(key) with no `or []` after it
FieldNoDefault(record, key) == Get(record, key)

\* `record.get(key) or []`
FieldOrEmpty(record, key) == Or(Get(record, key), PyList(<<>>))

\* `for x in v` iterates a list; on None it raises TypeError
CanIterate(v) == v.tag = "list"

\* the elements a loop over v visits
Items(v) == IF v.tag = "list" THEN v.items ELSE <<>>

RECURSIVE NormalizedSources(_)
\* lines 323-327: the non-discarded normalized names, in order
NormalizedSources(items) ==
    IF items = <<>> THEN <<>>
    ELSE LET norm == normalize_source_name(Head(items))
         IN  (IF Truthy(norm) THEN <<norm.s>> ELSE <<>>) \o NormalizedSources(Tail(items))

\* line 341 with >= for >
YearIsFuture_inclusive(y) == y >= MAX_VALID_YEAR

\* line 341
YearIsFuture(y) == y > MAX_VALID_YEAR

RECURSIVE HasFutureYear(_)
\* lines 334-342: the flag has_future_year after the loop over time_mentions
HasFutureYear(items) ==
    IF items = <<>> THEN FALSE
    ELSE LET years == FindYears(Str(Head(items)))
         IN  \/ \E k \in 1..Len(years) : YearIsFuture(years[k])
             \/ HasFutureYear(Tail(items))

\* lines 350-352: the domain sets the flag when it is non-empty and a pseudo-data domain
DomainCheck(d) ==
    IF d.raised THEN Raised
    ELSE Returned(d.domain # <<>> /\ is_pseudo_data_domain(d.domain))

\* lines 347-352 for one URL: whether it sets the flag, or raises
UrlCheck(u) == IF is_pseudo_data_url(u) THEN Returned(TRUE) ELSE DomainCheck(domain_of(u))

\* the flag after one more URL, c, when rest is the outcome for the others
Accumulate(c, rest) ==
    IF c.raised \/ rest.raised THEN Raised ELSE Returned(c.value \/ rest.value)

RECURSIVE HasSuspiciousDomain(_)
\* lines 345-352: the flag has_suspicious_domain after the loop over urls
HasSuspiciousDomain(items) ==
    IF items = <<>> THEN Returned(FALSE)
    ELSE Accumulate(UrlCheck(Head(items)), HasSuspiciousDomain(Tail(items)))

\* lines 355-363 with the second rule firing on either emptiness
CombineRules_either_empty(no_sources, no_urls, no_datasets, has_future_year, has_suspicious_domain) ==
    \/ no_sources
    \/ no_urls \/ no_datasets
    \/ has_future_year
    \/ has_suspicious_domain

\* lines 355-363: the four ifs that set computed_needs_review
CombineRules(no_sources, no_urls, no_datasets, has_future_year, has_suspicious_domain) ==
    \/ no_sources
    \/ no_urls /\ no_datasets
    \/ has_future_year
    \/ has_suspicious_domain

\* lines 333-365, given the four fields as lines 324-331 read them
RunRules(sources, urls, datasets, time_mentions, suspicious) ==
    IF ~CanIterate(sources) \/ ~CanIterate(time_mentions) \/ ~CanIterate(urls)
    THEN Raised
    ELSE IF suspicious.raised THEN Raised
    ELSE Returned(CombineRules(NormalizedSources(Items(sources)) = <<>>,
                               ~Truthy(urls),
                               ~Truthy(datasets),
                               HasFutureYear(Items(time_mentions)),
                               suspicious.value))

compute_needs_review_for_record(record) ==
    RunRules(FieldOrEmpty(record, "sources_mentions"),
             FieldOrEmpty(record, "urls"),
             FieldOrEmpty(record, "dataset_candidates"),
             FieldOrEmpty(record, "time_mentions"),
             HasSuspiciousDomain(Items(FieldOrEmpty(record, "urls"))))

\* the record dict after compute_needs_review_for_record(record), were the
\* function to store its result in it
compute_needs_review_effect_store(record) ==
    ("needs_review" :> PyBool(compute_needs_review_for_record(record).value)) @@ record

\* the record dict after compute_needs_review_for_record(record): the function
\* only reads it (record.get)
compute_needs_review_effect(record) == record

-----------------------------------------------------------------------------
(* Aggregator.  A Counter is a function from the counted keys to their counts. *)

EmptyCounter == <<>>

\* c[k] = 1 for c[k] += 1
Inc_assign(c, k) == IF k \in DOMAIN c THEN [c EXCEPT ![k] = 1] ELSE c @@ (k :> 1)

\* c[k] += 1
Inc(c, k) == IF k \in DOMAIN c THEN [c EXCEPT ![k] = @ + 1] ELSE c @@ (k :> 1)

\* Counter lookup: 0 for a key never counted
Count(c, k) == IF k \in DOMAIN c THEN c[k] ELSE 0

RECURSIVE IncAll(_, _)
\* c[k] += 1 for every k of the sequence ks, in order
IncAll(c, ks) == IF ks = <<>> THEN c ELSE IncAll(Inc(c, Head(ks)), Tail(ks))

RECURSIVE summarize_sources_from(_, _)
\* lines 373-377: the loop over the records, with the counter so far
summarize_sources_from(rs, c) ==
    IF rs = <<>> THEN c
    ELSE summarize_sources_from(Tail(rs),
            IncAll(c, NormalizedSources(Items(FieldOrEmpty(Head(rs), "sources_mentions")))))

summarize_sources(rs) == summarize_sources_from(rs, EmptyCounter)

\* line 387 reading the stored flag instead of recomputing it
ReviewFlag_stored(r) == Truthy(Get(r, "needs_review"))

\* line 387: the flag the aggregator counts a record by
ReviewFlag(r) == compute_needs_review_for_record(r).value

RECURSIVE TrueCount(_)
\* lines 385-388: true_count after the loop
TrueCount(rs) ==
    IF rs = <<>> THEN 0
    ELSE (IF ReviewFlag(Head(rs)) THEN 1 ELSE 0) + TrueCount(Tail(rs))

summarize_needs_review(rs) ==
    LET true_count == TrueCount(rs)
        rest == Len(rs) - true_count
    IN  ("True" :> true_count) @@ ("False" :> IF rest > 0 THEN rest ELSE 0)

\* line 407 with the lower bound exclusive
YearInRange_exclusive(y) == MIN_VALID_YEAR < y /\ y <= MAX_VALID_YEAR

\* line 407
YearInRange(y) == MIN_VALID_YEAR <= y /\ y <= MAX_VALID_YEAR

RECURSIVE YearsOfFragments(_)
\* every year token of the fragments, in order of occurrence
YearsOfFragments(items) ==
    IF items = <<>> THEN <<>>
    ELSE FindYears(Str(Head(items))) \o YearsOfFragments(Tail(items))

RECURSIVE summarize_years_from(_, _)
\* lines 400-408: the loop over the records, with the counter so far
summarize_years_from(rs, c) ==
    IF rs = <<>> THEN c
    ELSE summarize_years_from(Tail(rs),
            IncAll(c, SelectSeq(YearsOfFragments(Items(FieldOrEmpty(Head(rs), "time_mentions"))),
                                YearInRange)))

summarize_years(rs) == summarize_years_from(rs, EmptyCounter)

\* the records after summarize_needs_review(rs), were it to store each recomputed flag
summarize_needs_review_effect_store(rs) ==
    [i \in 1..Len(rs) |-> compute_needs_review_effect_store(rs[i])]

\* the records after summarize_sources(rs): only read
summarize_sources_effect(rs) == rs

\* the records after summarize_needs_review(rs): only read
summarize_needs_review_effect(rs) ==
    [i \in 1..Len(rs) |-> compute_needs_review_effect(rs[i])]

\* the records after summarize_years(rs): only read
summarize_years_effect(rs) == rs

-----------------------------------------------------------------------------
(* Dashboard: one PDF through the pipeline *)

PyStrList(ss) == PyList([i \in 1..Len(ss) |-> PyStr(ss[i])])

\* lines 101-110: the record dict before the derived fields are stored
BaseRecord(display_name, text, ai_meta, urls) ==
    ("pdf_name" :> PyStr(display_name)) @@
    ("sources_mentions" :> PyStrList(ai_meta.sources_ai)) @@
    ("time_mentions" :> PyStrList(<<text>>)) @@
    ("urls" :> PyStrList(urls)) @@
    ("dataset_candidates" :> PyList(<<>>)) @@
    ("has_declaration" :> PyBool(FALSE)) @@
    ("availability_section_found" :> PyBool(FALSE))

\* lines 111-113: the three fields stored after the record is built
WithDerived(record, ai_meta) ==
    record @@
    ("needs_review" :> PyBool(compute_needs_review_for_record(record).value)) @@
    ("years_ai" :> PyList(ai_meta.years_ai)) @@
    ("has_downloadable_data_ai" :> PyBool(ai_meta.has_downloadable_data_ai))

\* lines 98-114, given the normalized text
RecordOfText(display_name, text, ai_meta) ==
    WithDerived(BaseRecord(display_name, text, ai_meta, extract_urls_from_text(text)), ai_meta)

\* lines 98-114, given the normalized text
PipelineRecord(display_name, text) ==
    RecordOfText(display_name, text, ai_extract_metadata(PyStr(text)))

\* process_one_pdf, given what the two extraction libraries return for the file
process_one_pdf(pdfminer_text, pypdf_text, display_name) ==
    PipelineRecord(display_name, normalize_text(pdf_to_text(pdfminer_text, pypdf_text)))

-----------------------------------------------------------------------------
(* Batch export: a folder of PDFs to a CSV file *)

\* select_sample(paths, max_samples, mode, seed); pick stands for what
\* random.Random(seed).sample(paths, k=max_samples) returns
select_sample(paths, max_samples, mode, pick) ==
    IF max_samples <= 0 \/ max_samples >= Len(paths) THEN paths
    ELSE IF mode = "first" THEN SubSeq(paths, 1, max_samples)
    ELSE pick

\* parse_pdfs_to_csv: the header and the rows handed to the DictWriter, each
\* cell as the writer stores it (str() of a bool and of an int; the quoting of
\* a cell in the file is undone by any CSV reader and is not modelled).
\* folder holds the files rglob finds, sorted by path, each with what the two
\* PDF libraries return for it.
parse_pdfs_to_csv(folder, max_samples, sample_mode, pick) ==
    LET RECURSIVE Join(_)
        \* "; ".join(items)
        Join(items) ==
            IF items = <<>> THEN <<>>
            ELSE IF Len(items) = 1 THEN items[1]
            ELSE items[1] \o <<";", " ">> \o Join(Tail(items))
        \* str(n) for an int n in 0..9999
        IntStr(n) ==
            LET padded == [k \in 1..4 |-> Digits[((n \div (10 ^ (4 - k))) % 10) + 1]]
            IN  From(padded, IF FirstNotOf(padded, 1, {"0"}) > 4 THEN 4
                             ELSE FirstNotOf(padded, 1, {"0"}))
        \* str(b) for a bool b
        BoolStr(b) == IF b THEN <<"T", "r", "u", "e">> ELSE <<"F", "a", "l", "s", "e">>
        \* lines 642-649
        temp_record(text, ai_meta) ==
            ("sources_mentions" :> PyStrList(ai_meta.sources_ai)) @@
            ("time_mentions" :> PyStrList(<<text>>)) @@
            ("urls" :> PyStrList(extract_urls_from_text(text))) @@
            ("dataset_candidates" :> PyList(<<>>)) @@
            ("has_declaration" :> PyBool(FALSE)) @@
            ("availability_section_found" :> PyBool(FALSE))
        \* lines 653-656
        years_clipped(ai_meta) ==
            SelectSeq(ai_meta.years_ai, LAMBDA y : MIN_VALID_YEAR <= y /\ y <= MAX_VALID_YEAR)
        \* lines 658-665, with line 650
        Row(p, text, ai_meta) ==
            [pdf_path |-> p.path,
             sources_ai |-> Join(ai_meta.sources_ai),
             years_ai |-> Join([k \in 1..Len(years_clipped(ai_meta)) |->
                                   IntStr(years_clipped(ai_meta)[k])]),
             urls |-> Join(extract_urls_from_text(text)),
             has_downloadable_data_ai |-> BoolStr(ai_meta.has_downloadable_data_ai),
             needs_review |-> BoolStr(compute_needs_review_for_record(temp_record(text, ai_meta)).value)]
        RowOfText(p, text) == Row(p, text, ai_extract_metadata(PyStr(text)))
        pdf_paths == select_sample(folder,
                                   IF max_samples.tag = "None" THEN 0 ELSE max_samples.n,
                                   sample_mode, pick)
    IN  [header |-> << <<"p", "d", "f", "_", "p", "a", "t", "h">>, <<"s", "o", "u", "r", "c", "e", "s", "_", "a", "i">>, <<"y", "e", "a", "r", "s", "_", "a", "i">>, <<"u", "r", "l", "s">>,
                       <<"h", "a", "s", "_", "d", "o", "w", "n", "l", "o", "a", "d", "a", "b", "l", "e", "_", "d", "a", "t", "a", "_", "a", "i">>, <<"n", "e", "e", "d", "s", "_", "r", "e", "v", "i", "e", "w">> >>,
         rows |-> [k \in 1..Len(pdf_paths) |->
                      RowOfText(pdf_paths[k],
                                normalize_text(pdf_to_text(pdf_paths[k].pdfminer, pdf_paths[k].pypdf)))]]

-----------------------------------------------------------------------------
(* Inputs *)

\* the session holds at most this many records
MaxRecords == 2

\* the largest limit a run of the downloader is given
MaxLimit == 2

\* a dict entry that may be missing
Missing == [present |-> FALSE]
Present(v) == [present |-> TRUE, v |-> v]
Entry(key, option) == IF option.present THEN (key :> option.v) ELSE <<>>

SourcesOptions == {
    Missing,
    Present(PyNone),
    Present(PyList(<<>>)),
    Present(PyList(<<PyNone>>)),
    Present(PyStrList(<< <<"W", "o", "r", "l", "d", " ", "B", "a", "n", "k">> >>)),
    Present(PyStrList(<< <<"C", "r", "e", "a", "t", "i", "v", "e", " ", "C", "o", "m", "m", "o", "n", "s">> >>)),
    Present(PyList(<< PyStr(<<" ", "W", "D", "I", "\n">>), PyNone, PyStr(<<"u", "n", "i", "c", "e", "f">>) >>)),
    Present(PyStrList(<< <<"D", "o", "c", "u", "m", "e", "n", "t", " ", "o", "f", " ", "t", "h", "e", " ", "W", "o", "r", "l", "d", " ", "B", "a", "n", "k", " ", "r", "e", "p", "o", "r", "t">> >>)) }

UrlsOptions == {
    Missing,
    Present(PyNone),
    Present(PyList(<<>>)),
    Present(PyList(<<PyNone>>)),
    Present(PyStrList(<< <<"h", "t", "t", "p", "s", ":", "/", "/", "d", "a", "t", "a", ".", "w", "o", "r", "l", "d", "b", "a", "n", "k", ".", "o", "r", "g", "/", "x">> >>)),
    Present(PyStrList(<< <<"h", "t", "t", "p", "s", ":", "/", "/", "e", "x", "a", "m", "p", "l", "e", ".", "c", "o", "m", "/", "g", "i", "f", "t", "-", "c", "a", "r", "d", "-", "s", "p", "e", "c", "i", "a", "l">> >>)),
    Present(PyStrList(<< <<"h", "t", "t", "p", "s", ":", "/", "/", "e", "x", "a", "m", "p", "l", "e", ".", "c", "o", "m", "/", "G", "i", "f", "t", "C", "a", "r", "d">> >>)),
    Present(PyStrList(<< <<"h", "t", "t", "p", "s", ":", "/", "/", "w", "w", "w", ".", "s", "t", "a", "t", "a", ".", "c", "o", "m", "/", "b", "u", "y">> >>)),
    Present(PyStrList(<< <<"h", "t", "t", "p", "s", ":", "/", "/", "d", "o", "c", "u", "m", "e", "n", "t", "s", ".", "w", "o", "r", "l", "d", "b", "a", "n", "k", ".", "o", "r", "g", ":", "4", "4", "3", "/", "x">> >>)),
    Present(PyStrList(<< <<"h", "t", "t", "p", "s", ":", "/", "/", "s", "t", "a", "t", "a", "@", "e", "x", "a", "m", "p", "l", "e", ".", "c", "o", "m", "/", "x">> >>)),
    Present(PyStrList(<< <<"h", "t", "t", "p", "s", ":", "/", "/", "e", "x", "a", "m", "p", "l", "e", ".", "c", "o", "m", "/", "s", "t", "a", "t", "a", "?", "q", "=", "s", "t", "a", "t", "a">> >>)),
    Present(PyStrList(<< <<"h", "t", "t", "p", ":", "/", "/", "[", "s", "t", "a", "t", "a", ".", "c", "o", "m", "/", "x">> >>)),
    Present(PyStrList(<< <<"w", "w", "w", ".", "s", "t", "a", "t", "a", ".", "c", "o", "m", "/", "x">> >>)),
    Present(PyStrList(<< <<"h", "t", "t", "p", "s", ":", "/", "/", "d", "a", "t", "a", ".", "w", "o", "r", "l", "d", "b", "a", "n", "k", ".", "o", "r", "g", "/", "x">>, <<"H", "T", "T", "P", "S", ":", "/", "/", "D", "o", "c", "u", "m", "e", "n", "t", "s", ".", "W", "o", "r", "l", "d", "B", "a", "n", "k", ".", "o", "r", "g", "/", "y">> >>)) }

DatasetsOptions == {
    Missing,
    Present(PyNone),
    Present(PyList(<<>>)),
    Present(PyStrList(<< <<"s", "u", "r", "v", "e", "y">> >>)) }

TimeOptions == {
    Missing,
    Present(PyNone),
    Present(PyList(<<>>)),
    Present(PyList(<<PyNone>>)),
    Present(PyStrList(<< <<"p", "u", "b", "l", "i", "s", "h", "e", "d", " ", "i", "n", " ", "2", "0", "2", "0">> >>)),
    Present(PyStrList(<< <<"f", "o", "r", "e", "c", "a", "s", "t", " ", "f", "o", "r", " ", "2", "0", "9", "9">> >>)),
    Present(PyStrList(<< <<"2", "0", "2", "5">> >>)),
    Present(PyStrList(<< <<"1", "9", "8", "9", ",", " ", "2", "0", "2", "6">> >>)),
    Present(PyStrList(<< <<"x", "2", "0", "2", "6", " ", "2", "0", "2", "6", "1">> >>)),
    Present(PyStrList(<< <<"1", "9", "9", "9", " ", "a", "n", "d", " ", "2", "0", "9", "9">> >>)) }

\* a record dict with the four fields the rule engine reads
MakeRecord(so, uo, do, to) ==
    Entry("sources_mentions", so) @@ Entry("urls", uo)
        @@ Entry("dataset_candidates", do) @@ Entry("time_mentions", to)

\* texts handed to ai_extract_metadata
TextArgs == {
    PyNone,
    PyStr(<<>>),
    PyStr(<<"D", "a", "t", "a", ":", " ", "W", "o", "r", "l", "d", " ", "B", "a", "n", "k", " ", "G", "r", "o", "u", "p", " ", "W", "D", "I", ",", " ", "1", "9", "9", "9", " ", "a", "n", "d", " ", "2", "0", "9", "9", ".", " ", "A", "v", "a", "i", "l", "a", "b", "l", "e", " ", "f", "o", "r", " ", "d", "o", "w", "n", "l", "o", "a", "d", ".">>),
    PyStr(<<"w", "h", "o", "?", " ", "U", "N", "I", "C", "E", "F", " ", "2", "0", "2", "0">>),
    PyStr(<<"I", "M", "F", ",", " ", "t", "h", "e", "n", " ", "U", "n", "e", "s", "c", "o", " ", "a", "n", "d", " ", "t", "h", "e", " ", "W", "o", "r", "l", "d", " ", "B", "a", "n", "k", ";", " ", "i", "m", "f", " ", "a", "g", "a", "i", "n", " ", "(", "P", "I", "P", ")", ":", " ", "w", "h", "o", "l", "e", " ", "p", "i", "p", "e", "l", "i", "n", "e">>),
    PyStr(<<"I", "n", "t", "e", "r", "n", "a", "t", "i", "o", "n", "a", "l", " ", "M", "o", "n", "e", "t", "a", "r", "y", " ", "F", "u", "n", "d", " ", "/", " ", "W", "o", "r", "l", "d", " ", "H", "e", "a", "l", "t", "h", " ", "O", "r", "g", "a", "n", "i", "z", "a", "t", "i", "o", "n", ",", " ", "2", "0", "3", "0", "-", "1", "9", "8", "9">>),
    PyStr(<<"P", "o", "v", "e", "r", "t", "y", " ", "a", "n", "d", " ", "I", "n", "e", "q", "u", "a", "l", "i", "t", "y", " ", "P", "l", "a", "t", "f", "o", "r", "m", " ", "2", "0", "0", "1", ",", " ", "2", "0", "0", "1", ",", " ", "1", "9", "9", "9", "x", " ", "1", "2", "0", "2", "0", " ", "2", "0", "0", "0">>),
    PyStr(<<"n", "o", " ", "s", "o", "u", "r", "c", "e", " ", "n", "a", "m", "e", "d", " ", "i", "n", " ", "1", "8", "9", "9", " ", "o", "r", " ", "2", "1", "0", "0">>),
    PyStr(<<"1", "9", "9", "9", " ", "a", "n", "d", " ", "2", "0", "9", "9">>),
    PyStr(<<"U", "N", "I", "C", "E", "F", " ", "U+0130", "2", "0", "3", "0", " ", "a", "n", "d", " ", "2", "0", "0", "1", "U+0130">>) }

\* raw source names handed to normalize_source_name
NamePads == { <<>>, <<" ">>, <<"\r", "\n">>, <<"s", "e", "e", " ">> }
NameCores == {
    <<>>,
    <<"W", "o", "r", "l", "d", " ", "B", "a", "n", "k">>, <<"T", "h", "e", " ", " ", "W", "o", "r", "l", "d", "\t", "B", "a", "n", "k">>, <<"w", "o", "r", "l", "d", " ", "b", "a", "n", "k", " ", "g", "r", "o", "u", "p">>,
    <<"t", "h", "e", " ", "w", "o", "r", "l", "d", " ", "b", "a", "n", "k">>, <<"w", "o", "r", "l", "d", " ", " ", "b", "a", "n", "k">>, <<"w", "o", "r", "l", "d", " ", "d", "e", "v", "e", "l", "o", "p", "m", "e", "n", "t", " ", " ", "i", "n", "d", "i", "c", "a", "t", "o", "r", "s">>,
    <<"W", "D", "I">>, <<"W", "o", "r", "l", "d", " ", "D", "e", "v", "e", "l", "o", "p", "m", "e", "n", "t", " ", "I", "n", "d", "i", "c", "a", "t", "o", "r", "s">>, <<"w", "o", "r", "l", "d", " ", "d", "e", "v", "e", "l", "o", "p", "m", "e", "n", "t", " ", "i", "n", "d", "i", "c", "a", "t", "o", "r", "s", " ", "(", "w", "d", "i", ")">>,
    <<"p", "i", "p">>, <<"P", "o", "v", "e", "r", "t", "y", " ", "a", "n", "d", " ", "I", "n", "e", "q", "u", "a", "l", "i", "t", "y", " ", "P", "l", "a", "t", "f", "o", "r", "m">>,
    <<"I", "M", "F">>, <<"i", ".", "m", ".", "f", ".">>, <<"I", "n", "t", "e", "r", "n", "a", "t", "i", "o", "n", "a", "l", " ", "M", "o", "n", "e", "t", "a", "r", "y", " ", "F", "u", "n", "d">>,
    <<"u", "n", "i", "c", "e", "f">>, <<"E", "u", "r", "o", "s", "t", "a", "t">>,
    <<"C", "r", "e", "a", "t", "i", "v", "e", " ", "C", "o", "m", "m", "o", "n", "s">>, <<"c", "r", "e", "a", "t", "i", "v", "e", " ", "c", "o", "m", "m", "o", "n", "s", " ", "l", "i", "c", "e", "n", "s", "e">>,
    <<"D", "o", "c", "u", "m", "e", "n", "t", "s", " ", "o", "f", " ", "t", "h", "e", " ", "W", "o", "r", "l", "d", " ", "B", "a", "n", "k">>, <<"D", "o", "c", "u", "m", "e", "n", "t", " ", "o", "f", " ", "t", "h", "e", " ", "W", "o", "r", "l", "d", " ", "B", "a", "n", "k">>,
    <<"d", "o", "c", "u", "m", "e", "n", "t", "s", " ", "o", "f", " ", "w", "o", "r", "l", "d", " ", "b", "a", "n", "k">>, <<"D", "o", "c", "u", "m", "e", "n", "t", " ", "o", "f", " ", "W", "o", "r", "l", "d", " ", "B", "a", "n", "k">>,
    <<"D", "o", "c", "u", "m", "e", "n", "t", "s", " ", "o", "f", " ", "t", "h", "e", " ", "W", "o", "r", "l", "d", " ", "B", "a", "n", "k", " ", "G", "r", "o", "u", "p">> }
NameArgs ==
    {PyNone} \cup {PyStr(a \o c \o b) : a \in NamePads, c \in NameCores, b \in {<<>>, <<" ">>, <<" ", "2", "0", "1", "9">>}}

\* records the session is handed ready-made (extraction done elsewhere); the
\* stored needs_review of the first two is not what the rules give
AdHocRecords == {
    MakeRecord(Present(PyStrList(<< <<"W", "o", "r", "l", "d", " ", "B", "a", "n", "k">> >>)),
               Present(PyStrList(<< <<"h", "t", "t", "p", "s", ":", "/", "/", "d", "a", "t", "a", ".", "w", "o", "r", "l", "d", "b", "a", "n", "k", ".", "o", "r", "g", "/", "x">> >>)),
               Present(PyStrList(<< <<"s", "u", "r", "v", "e", "y">> >>)),
               Present(PyStrList(<< <<"p", "u", "b", "l", "i", "s", "h", "e", "d", " ", "i", "n", " ", "2", "0", "2", "0">> >>)))
        @@ ("needs_review" :> PyBool(TRUE)),
    MakeRecord(Present(PyStrList(<< <<"C", "r", "e", "a", "t", "i", "v", "e", " ", "C", "o", "m", "m", "o", "n", "s">> >>)),
               Present(PyList(<<>>)),
               Present(PyList(<<>>)),
               Missing)
        @@ ("needs_review" :> PyBool(FALSE)),
    MakeRecord(Present(PyStrList(<< <<"w", "d", "i">>, <<"W", "D", "I", " ">>, <<"D", "o", "c", "u", "m", "e", "n", "t", " ", "o", "f", " ", "t", "h", "e", " ", "W", "o", "r", "l", "d", " ", "B", "a", "n", "k", " ", "r", "e", "p", "o", "r", "t">> >>)),
               Present(PyStrList(<< <<"h", "t", "t", "p", "s", ":", "/", "/", "w", "w", "w", ".", "s", "t", "a", "t", "a", ".", "c", "o", "m", "/", "b", "u", "y">> >>)),
               Missing,
               Present(PyStrList(<< <<"1", "9", "9", "9", " ", "a", "n", "d", " ", "2", "0", "9", "9">>, <<"1", "9", "9", "0", "-", "2", "0", "2", "5", ",", " ", "1", "9", "8", "9", ";", " ", "2", "0", "2", "6">>, <<"i", "n", " ", "1", "9", "9", "9">> >>))),
    MakeRecord(Missing, Missing, Missing, Missing),
    MakeRecord(Present(PyList(<< PyNone, PyStr(<<"u", "n", "i", "c", "e", "f">>) >>)),
               Present(PyStrList(<< <<"h", "t", "t", "p", "s", ":", "/", "/", "d", "a", "t", "a", ".", "w", "o", "r", "l", "d", "b", "a", "n", "k", ".", "o", "r", "g", "/", "x">> >>)),
               Present(PyNone),
               Present(PyList(<< PyNone, PyStr(<<"2", "0", "2", "5">>) >>))) }

\* what the two PDF libraries return for the files the dashboard is given:
\* <<pdfminer text, PyPDF2 text>>
PdfTexts == {
    << <<>>, <<>> >>,
    << <<"S", "o", "u", "r", "c", "e", ":", " ", "t", "h", "e", " ", "W", "o", "r", "l", "d", " ", "B", "a", "n", "k", ",", " ", "W", "o", "r", "l", "d", " ", "D", "e", "v", "e", "l", "o", "p", "m", "e", "n", "t", " ", "I", "n", "d", "i", "c", "a", "t", "o", "r", "s", " ", "(", "W", "D", "I", ")", ",", " ", "2", "0", "2", "0", ".", "\n", "S", "e", "e", " ", "h", "t", "t", "p", "s", ":", "/", "/", "d", "a", "t", "a", ".", "w", "o", "r", "l", "d", "b", "a", "n", "k", ".", "o", "r", "g", "/", "x">>,
       <<>> >>,
    << <<" ", " ", "\n", " ", "p", "a", "g", "e", " ", "1", " ", "\n">>,
       <<"I", "M", "F", " ", "f", "o", "r", "e", "-", "\n", "c", "a", "s", "t", " ", "f", "o", "r", " ", "2", "0", "9", "9", " ", ENDASH, " ", "d", "a", "t", "a", " ", "a", "r", "e", " ", "a", "v", "a", "i", "l", "a", "b", "l", "e", " ", "a", "t", " ", "h", "t", "t", "p", "s", ":", "/", "/", "d", "o", "c", "u", "m", "e", "n", "t", "s", ".", "w", "o", "r", "l", "d", "b", "a", "n", "k", ".", "o", "r", "g", "/", "y", ".">> >>,
    << <<"L", "i", "c", "e", "n", "s", "e", "d", " ", "u", "n", "d", "e", "r", " ", "C", "r", "e", "a", "t", "i", "v", "e", " ", "C", "o", "m", "m", "o", "n", "s", ".", " ", "B", "u", "y", " ", "a", "t", " ", "h", "t", "t", "p", "s", ":", "/", "/", "e", "x", "a", "m", "p", "l", "e", ".", "c", "o", "m", "/", "g", "i", "f", "t", "-", "c", "a", "r", "d", " ", "(", "2", "0", "1", "9", ")", ",", " ", "U", "N", "I", "C", "E", "F", " ", "a", "n", "d", " ", "W", "H", "O", " ", "d", "a", "t", "a", " ", "1", "9", "9", "0">>,
       <<"u", "n", "u", "s", "e", "d">> >> }

DisplayName == <<"a", ".", "p", "d", "f">>

\* what the two PDF libraries return, for single calls of process_one_pdf and
\* for the files of a batch: the files of the session, a short text padded with
\* blanks to 60 characters and more, texts of 60 and of 59 characters once
\* stripped, a text with years before, in and after the valid range, and a
\* text in which the capital I with a dot stands before two years
PdfArgs ==
    PdfTexts \cup {
        << <<" ", " ", " ", " ", " ", " ", " ", " ", " ", " ", "I", "M", "F", " ", "d", "a", "t", "a", " ", "2", "0", "9", "9", ",", " ", "s", "e", "e", " ", "h", "t", "t", "p", "s", ":", "/", "/", "w", "w", "w", ".", "s", "t", "a", "t", "a", ".", "c", "o", "m", "/", "b", "u", "y", "\n", "\n", "\n", "\n", "\n", "\n", "\n", "\n", "\n", "\n">>,
           <<>> >>,
        << <<" ", " ", " ", " ", " ", " ", " ", " ", " ", " ", "I", "M", "F", " ", "d", "a", "t", "a", " ", "2", "0", "9", "9", ",", " ", "s", "e", "e", " ", "h", "t", "t", "p", "s", ":", "/", "/", "w", "w", "w", ".", "s", "t", "a", "t", "a", ".", "c", "o", "m", "/", "b", "u", "y", "\n", "\n", "\n", "\n", "\n", "\n", "\n", "\n", "\n", "\n">>,
           <<"U", "N", "E", "S", "C", "O", " ", "2", "0", "0", "1">> >>,
        << <<"W", "D", "I", " ", "1", "9", "9", "9", ":", " ", "d", "a", "t", "a", " ", "a", "r", "e", " ", "a", "v", "a", "i", "l", "a", "b", "l", "e", " ", "a", "t", " ", "h", "t", "t", "p", "s", ":", "/", "/", "d", "a", "t", "a", ".", "w", "o", "r", "l", "d", "b", "a", "n", "k", ".", "o", "r", "g", "/", "x">>,
           <<"f", "a", "l", "l", "b", "a", "c", "k", " ", "t", "e", "x", "t">> >>,
        << <<" ", "W", "D", "I", " ", "1", "9", "9", "9", ":", " ", "d", "a", "t", "a", " ", "a", "r", "e", " ", "a", "v", "a", "i", "l", "a", "b", "l", "e", " ", "a", "t", " ", "h", "t", "t", "p", "s", ":", "/", "/", "d", "a", "t", "a", ".", "w", "o", "r", "l", "d", "b", "a", "n", "k", ".", "o", "r", "g", "/", "\t">>,
           <<"U", "N", "E", "S", "C", "O", " ", "2", "0", "0", "1">> >>,
        << <<" ", "\n", "\t", " ">>, <<>> >>,
        << <<>>, <<"W", "D", "I", " ", "1", "9", "8", "9", ",", " ", "2", "0", "0", "1", " ", "a", "n", "d", " ", "2", "0", "2", "6", ":", " ", "h", "t", "t", "p", "s", ":", "/", "/", "d", "a", "t", "a", ".", "w", "o", "r", "l", "d", "b", "a", "n", "k", ".", "o", "r", "g", "/", "x">> >>,
        << <<>>, <<"W", "o", "r", "l", "d", " ", "B", "a", "n", "k", ":", " ", "h", "t", "t", "p", "s", ":", "/", "/", "d", "a", "t", "a", ".", "w", "o", "r", "l", "d", "b", "a", "n", "k", ".", "o", "r", "g", "/", "x", " ", "U+0130", "S", "T", "A", "T", "U+0130", "2", "0", "3", "0", ",", " ", "U+0130", "1", "9", "9", "9">> >> }

\* the largest number of PDFs in the folder handed to parse_pdfs_to_csv
MaxPdfs == 2

\* raw texts handed to normalize_text
RawTexts == {
    <<>>,
    <<"c", "o", "-", "\n", "o", "p", "e", "r", "a", "t", "i", "o", "n">>,
    <<"c", "o", "-", "\r", "o", "p", "e", "r", "a", "t", "i", "o", "n">>,
    <<"c", "o", ENDASH, "\n", "o", "p", "e", "r", "a", "t", "i", "o", "n">>,
    <<"c", "o", EMDASH, "\n", "o", "p", "e", "r", "a", "t", "i", "o", "n">>,
    <<"c", "o", MINUS, "\n", "o", "p", "e", "r", "a", "t", "i", "o", "n">>,
    <<"c", "o", "-", " ", "\n", "o", "p", "e", "r", "a", "t", "i", "o", "n">>,
    <<"c", "o", "-", "\t", " ", "\n", "o", "p", "e", "r", "a", "t", "i", "o", "n">>,
    <<"a", "-", "-", "\n", "\n", "b">>,
    <<"c", "o", "-", "\n", "\n", "\n", "\n", "o", "p", "e", "r", "a", "t", "i", "o", "n">>,
    <<"1", "9", "9", "0", ENDASH, "2", "0", "2", "5", " ", "\r", "\r", "\r", "\r", "e", "n", "d", " ", "-">>,
    <<"n", "o", " ", "w", "r", "a", "p", " ", "-", " ", "h", "e", "r", "e", "\n">> }

\* the portals the downloader is run against: the pages of the catalog listing
\* (each the entries it links to), the anchors of each entry's page and of its
\* related-materials tab, and the requests that can fail during a batch (the
\* listing page and the entry page that fail, 0 for none)
Sites == {
    [listing |-> << <<1, 2>>, <<3>> >>,
     items |-> <<
        [main |-> << [href |-> <<"/", "i", "n", "d", "e", "x", ".", "p", "h", "p", "/", "c", "a", "t", "a", "l", "o", "g", "/", "2", "2", "2", "/", "d", "o", "w", "n", "l", "o", "a", "d", "/", "6", "4", "3", "/", "R", "E", "A", "D", "M", "E", ".", "p", "d", "f">>, text |-> <<"R", "E", "A", "D", "M", "E">>],
                     [href |-> <<"/", "i", "n", "d", "e", "x", ".", "p", "h", "p", "/", "c", "a", "t", "a", "l", "o", "g", "/", "1", "/", "d", "o", "w", "n", "l", "o", "a", "d", "/", "1", "0", "/", "R", "E", "A", "D", "M", "E", ".", "p", "d", "f">>, text |-> <<"D", "o", "w", "n", "l", "o", "a", "d">>] >>,
         related |-> << [href |-> <<"/", "i", "n", "d", "e", "x", ".", "p", "h", "p", "/", "c", "a", "t", "a", "l", "o", "g", "/", "1", "/", "d", "o", "w", "n", "l", "o", "a", "d", "/", "1", "1">>, text |-> <<"R", "e", "a", "d", "m", "e", " ", "(", "P", "D", "F", ")">>] >>],
        [main |-> << [href |-> <<"/", "i", "n", "d", "e", "x", ".", "p", "h", "p", "/", "c", "a", "t", "a", "l", "o", "g", "/", "2", "/", "d", "o", "w", "n", "l", "o", "a", "d", "/", "2", "0", "/", "R", "e", "p", "l", "i", "c", "a", "t", "i", "o", "n", "_", "R", "E", "A", "D", "M", "E", ".", "p", "d", "f">>,
                      text |-> <<"R", "E", "A", "D", "M", "E", " ", "f", "i", "l", "e">>] >>,
         related |-> << [href |-> <<"/", "i", "n", "d", "e", "x", ".", "p", "h", "p", "/", "c", "a", "t", "a", "l", "o", "g", "/", "2", "/", "d", "o", "w", "n", "l", "o", "a", "d", "/", "2", "1", "/", "d", "a", "t", "a", ".", "z", "i", "p">>, text |-> <<"D", "a", "t", "a">>] >>],
        [main |-> << [href |-> <<"h", "t", "t", "p", "s", ":", "/", "/", "r", "e", "p", "r", "o", "d", "u", "c", "i", "b", "i", "l", "i", "t", "y", ".", "w", "o", "r", "l", "d", "b", "a", "n", "k", ".", "o", "r", "g", "/", "c", "a", "t", "a", "l", "o", "g", "/", "3", "/", "d", "o", "w", "n", "l", "o", "a", "d", "/", "3", "0">>, text |-> <<>>],
                     [href |-> <<"/", "d", "o", "w", "n", "l", "o", "a", "d", "/", "9", "9", "/", "r", "e", "a", "d", "m", "e", ".", "p", "d", "f">>, text |-> <<"R", "e", "a", "d", " ", "m", "e">>] >>,
         related |-> <<>>] >>,
     faults |-> { [page |-> 0, item |-> 0], [page |-> 1, item |-> 0],
                  [page |-> 2, item |-> 0], [page |-> 0, item |-> 1] }],
    [listing |-> [p \in 1..31 |-> << p >>],
     items |-> [i \in 1..31 |->
                  IF i = 31
                  THEN [main |-> << [href |-> <<"/", "i", "n", "d", "e", "x", ".", "p", "h", "p", "/", "c", "a", "t", "a", "l", "o", "g", "/", "3", "1", "/", "d", "o", "w", "n", "l", "o", "a", "d", "/", "1", "/", "r", "e", "a", "d", "m", "e", ".", "P", "D", "F">>,
                                     text |-> <<"f", "i", "l", "e">>] >>,
                        related |-> <<>>]
                  ELSE [main |-> <<>>, related |-> <<>>]],
     faults |-> { [page |-> 0, item |-> 0], [page |-> 31, item |-> 0] }],
    [listing |-> <<>>, items |-> <<>>, faults |-> { [page |-> 0, item |-> 0] }] }

\* what data/readmes holds before the first run: nothing; the seed's file and a
\* file that is no PDF; an empty file for entry 1 and a file saved under the
\* name the portal gave it; the files of entries 1 and 2
Folders == {
    <<>>,
    (<<"2", "2", "2", "_", "R", "E", "A", "D", "M", "E", ".", "p", "d", "f">> :> 1) @@ (<<"n", "o", "t", "e", "s", ".", "t", "x", "t">> :> 1),
    (<<"1", "_", "R", "E", "A", "D", "M", "E", ".", "p", "d", "f">> :> 0) @@ (<<"R", "e", "p", "l", "i", "c", "a", "t", "i", "o", "n", "_", "R", "E", "A", "D", "M", "E", ".", "p", "d", "f">> :> 1),
    (<<"1", "_", "R", "E", "A", "D", "M", "E", ".", "p", "d", "f">> :> 1) @@ (<<"2", "_", "R", "E", "A", "D", "M", "E", ".", "p", "d", "f">> :> 1) }
-----------------------------------------------------------------------------
(* The dashboard session: records are appended, the rule engine and the    *)
(* aggregator are called on them.                                          *)

NoCall == [op |-> "none", idx |-> 0, ret |-> PyNone]
NoArg == [kind |-> "none"]
NotCalled == [calls |-> 0]

\* the single-call driver stays idle in the session
DriverIdle == arg = NoArg /\ out = NotCalled

\* the downloader is not run
CrawlerIdle ==
    /\ files = <<>>
    /\ site = [listing |-> <<>>, items |-> <<>>, faults |-> {}]
    /\ limit = 0
    /\ pc = "off"
    /\ existing_ids = {}
    /\ plan = <<>>
    /\ seen_ids = {}
    /\ max_pages = 0
    /\ batches = <<>>
    /\ fault = [page |-> 0, item |-> 0]
    /\ discovered = {}
    /\ idx = 0
    /\ ok = 0
    /\ outcomes = <<>>
    /\ saved = {}

Init ==
    /\ records = <<>>
    /\ firstResult = <<>>
    /\ last = NoCall
    /\ DriverIdle
    /\ CrawlerIdle

\* a ready-made record is appended to the session's list
AddRecord ==
    \E r \in AdHocRecords :
        /\ Len(records) < MaxRecords
        /\ records' = Append(records, r)
        /\ firstResult' = Append(firstResult, PyNone)
        /\ last' = [op |-> "append", idx |-> Len(records) + 1, ret |-> PyNone]
        /\ UNCHANGED <<arg, out>>
        /\ UNCHANGED dlvars

\* dashboard_app.py: rec = process_one_pdf(...); records.append(rec)
ProcessOnePdf ==
    \E t \in PdfTexts :
        LET rec == process_one_pdf(t[1], t[2], DisplayName)
        IN  /\ Len(records) < MaxRecords
            /\ records' = Append(records, rec)
            /\ firstResult' = Append(firstResult, rec["needs_review"])
            /\ last' = [op |-> "process_one_pdf", idx |-> Len(records) + 1, ret |-> PyNone]
            /\ UNCHANGED <<arg, out>>
            /\ UNCHANGED dlvars

\* compute_needs_review_for_record(records[i])
ComputeNeedsReview ==
    \E i \in 1..Len(records) :
        LET ret == PyBool(compute_needs_review_for_record(records[i]).value)
        IN  /\ records' = [records EXCEPT ![i] = compute_needs_review_effect(@)]
            /\ firstResult' = [firstResult EXCEPT ![i] = IF @ = PyNone THEN ret ELSE @]
            /\ last' = [op |-> "compute_needs_review_for_record", idx |-> i, ret |-> ret]
            /\ UNCHANGED <<arg, out>>
            /\ UNCHANGED dlvars

\* summarize_sources(records)
SummarizeSources ==
    /\ records' = summarize_sources_effect(records)
    /\ last' = [op |-> "summarize_sources", idx |-> 0, ret |-> summarize_sources(records)]
    /\ UNCHANGED <<firstResult, arg, out>>
    /\ UNCHANGED dlvars

\* summarize_needs_review(records)
SummarizeNeedsReview ==
    /\ records' = summarize_needs_review_effect(records)
    /\ last' = [op |-> "summarize_needs_review", idx |-> 0, ret |-> summarize_needs_review(records)]
    /\ UNCHANGED <<firstResult, arg, out>>
    /\ UNCHANGED dlvars

\* summarize_years(records)
SummarizeYears ==
    /\ records' = summarize_years_effect(records)
    /\ last' = [op |-> "summarize_years", idx |-> 0, ret |-> summarize_years(records)]
    /\ UNCHANGED <<firstResult, arg, out>>
    /\ UNCHANGED dlvars

Next ==
    \/ AddRecord
    \/ ProcessOnePdf
    \/ ComputeNeedsReview
    \/ SummarizeSources
    \/ SummarizeNeedsReview
    \/ SummarizeYears

Spec == Init /\ [][Next]_vars

-----------------------------------------------------------------------------
(* Single calls: one function applied to one argument drawn from the       *)
(* input sets.                                                             *)

SessionIdle == records = <<>> /\ firstResult = <<>> /\ last = NoCall

InitFn ==
    /\ SessionIdle
    /\ CrawlerIdle
    /\ out = NotCalled
    /\ \/ \E so \in SourcesOptions, uo \in UrlsOptions, do \in DatasetsOptions, to \in TimeOptions :
              arg = [kind |-> "record", v |-> MakeRecord(so, uo, do, to)]
       \/ \E t \in TextArgs : arg = [kind |-> "text", v |-> t]
       \/ \E n \in NameArgs : arg = [kind |-> "name", v |-> n]
       \/ \E t \in PdfArgs : arg = [kind |-> "pdf", v |-> t]
       \/ \E t \in RawTexts : arg = [kind |-> "raw", v |-> t]
       \/ \E n \in 0..MaxPdfs :
             \E ts \in [1..n -> PdfArgs], ms \in {PyNone, [tag |-> "int", n |-> 1]},
                mode \in {"first", "random"} :
                 arg = [kind |-> "folder",
                        v |-> [folder |-> [i \in 1..n |->
                                             [path |-> <<"i", "n", "/">> \o << Digits[i + 1] >> \o <<".", "p", "d", "f">>,
                                              pdfminer |-> ts[i][1],
                                              pypdf |-> ts[i][2]]],
                               max_samples |-> ms,
                               sample_mode |-> mode]]

\* compute_needs_review_for_record(arg)
CallComputeNeedsReview ==
    /\ arg.kind = "record"
    /\ out = NotCalled
    /\ LET r == compute_needs_review_for_record(arg.v)
       IN  out' = [calls |-> 1, raised |-> r.raised, value |-> r.value]
    /\ UNCHANGED <<records, firstResult, last, arg>>
    /\ UNCHANGED dlvars

\* ai_extract_metadata(arg)
CallAiExtractMetadata ==
    /\ arg.kind = "text"
    /\ out = NotCalled
    /\ out' = [calls |-> 1, raised |-> FALSE, value |-> ai_extract_metadata(arg.v)]
    /\ UNCHANGED <<records, firstResult, last, arg>>
    /\ UNCHANGED dlvars

\* normalize_source_name(arg)
CallNormalizeSourceName ==
    /\ arg.kind = "name"
    /\ out = NotCalled
    /\ out' = [calls |-> 1, raised |-> FALSE, value |-> normalize_source_name(arg.v)]
    /\ UNCHANGED <<records, firstResult, last, arg>>
    /\ UNCHANGED dlvars

\* normalize_source_name applied to the result of the first call
CallNormalizeSourceNameAgain ==
    /\ arg.kind = "name"
    /\ out.calls = 1
    /\ out' = [calls |-> 2, raised |-> FALSE, value |-> normalize_source_name(out.value),
               first |-> out.value]
    /\ UNCHANGED <<records, firstResult, last, arg>>
    /\ UNCHANGED dlvars

\* process_one_pdf on a file for which the two libraries return arg
CallProcessOnePdf ==
    /\ arg.kind = "pdf"
    /\ out = NotCalled
    /\ out' = [calls |-> 1, raised |-> FALSE,
               value |-> process_one_pdf(arg.v[1], arg.v[2], DisplayName)]
    /\ UNCHANGED <<records, firstResult, last, arg>>
    /\ UNCHANGED dlvars

\* normalize_text(arg)
CallNormalizeText ==
    /\ arg.kind = "raw"
    /\ out = NotCalled
    /\ out' = [calls |-> 1, raised |-> FALSE, value |-> normalize_text(arg.v)]
    /\ UNCHANGED <<records, firstResult, last, arg>>
    /\ UNCHANGED dlvars

\* parse_pdfs_to_csv on the folder arg; where random.sample is called, pick is
\* any of the samples it can draw: max_samples files of the folder, in any order
CallParsePdfsToCsv ==
    /\ arg.kind = "folder"
    /\ out = NotCalled
    /\ \E pick \in IF /\ arg.v.sample_mode = "random"
                       /\ arg.v.max_samples.tag = "int"
                       /\ arg.v.max_samples.n < Len(arg.v.folder)
                    THEN { s \in [1..arg.v.max_samples.n -> Range(arg.v.folder)] :
                             \A i, j \in DOMAIN s : i # j => s[i].path # s[j].path }
                    ELSE { <<>> } :
           out' = [calls |-> 1, raised |-> FALSE,
                   value |-> parse_pdfs_to_csv(arg.v.folder, arg.v.max_samples,
                                               arg.v.sample_mode, pick)]
    /\ UNCHANGED <<records, firstResult, last, arg>>
    /\ UNCHANGED dlvars

NextFn ==
    \/ CallComputeNeedsReview
    \/ CallAiExtractMetadata
    \/ CallNormalizeSourceName
    \/ CallNormalizeSourceNameAgain
    \/ CallProcessOnePdf
    \/ CallNormalizeText
    \/ CallParsePdfsToCsv

SpecFn == InitFn /\ [][NextFn]_vars

-----------------------------------------------------------------------------
(* The downloader: runs of main() of download_readmes.py against a portal   *)
(* and a folder.                                                            *)

InitDl ==
    /\ SessionIdle
    /\ DriverIdle
    /\ files \in Folders
    /\ site \in Sites
    /\ limit \in 0..MaxLimit
    /\ pc = "main"
    /\ existing_ids = {}
    /\ plan = <<>>
    /\ seen_ids = {}
    /\ max_pages = 0
    /\ batches = <<>>
    /\ fault = [page |-> 0, item |-> 0]
    /\ discovered = {}
    /\ idx = 0
    /\ ok = 0
    /\ outcomes = <<>>
    /\ saved = {}

\* main: existing_ids = list_existing_catalog_ids(OUT_DIR); build_download_plan
\* up to the end of the loop over the seeds, which returns the plan when it is
\* full after an append (main then starts the downloads)
StartRun ==
    /\ pc = "main"
    /\ LET ids == list_existing_catalog_ids(files)
           st == TakeNew(Dedupe(SEED_README_URLS), 1,
                         [plan |-> <<>>, seen_ids |-> {}, hit |-> FALSE], limit, ids)
       IN  /\ existing_ids' = ids
           /\ plan' = st.plan
           /\ seen_ids' = st.seen_ids
           /\ pc' = IF st.hit THEN "download" ELSE "expand"
    /\ max_pages' = 30
    /\ idx' = 1
    /\ ok' = 0
    /\ UNCHANGED <<files, site, limit, batches, fault, discovered, outcomes, saved>>
    /\ UNCHANGED <<records, firstResult, last, arg, out>>

\* build_download_plan: one turn of the while loop, a call of auto_discover_batch
\* and the loop over its pool; max_pages grows unless the plan is full
DiscoverBatch ==
    /\ pc = "expand"
    /\ Len(plan) < limit /\ max_pages <= hard_cap_pages
    /\ \E f \in site.faults :
          LET pool == auto_discover_batch(site, max_pages, f)
              st == TakeNew(pool, 1, [plan |-> plan, seen_ids |-> seen_ids, hit |-> FALSE],
                            limit, existing_ids)
          IN  /\ plan' = st.plan
              /\ seen_ids' = st.seen_ids
              /\ max_pages' = IF Len(st.plan) >= limit THEN max_pages ELSE max_pages + 30
              /\ discovered' = discovered \cup Range(pool)
              /\ fault' = f
    /\ batches' = Append(batches, max_pages)
    /\ UNCHANGED <<files, site, limit, pc, existing_ids, idx, ok, outcomes, saved>>
    /\ UNCHANGED <<records, firstResult, last, arg, out>>

\* build_download_plan: the while loop is left, return plan[:limit]; main exits
\* with status 2 when the plan is empty
ReturnPlan ==
    /\ pc = "expand"
    /\ ~(Len(plan) < limit /\ max_pages <= hard_cap_pages)
    /\ plan' = SubSeq(plan, 1, IF limit < Len(plan) THEN limit ELSE Len(plan))
    /\ pc' = IF plan' = <<>> THEN "exit" ELSE "download"
    /\ UNCHANGED <<files, site, limit, existing_ids, seen_ids, max_pages, batches, fault,
                   discovered, idx, ok, outcomes, saved>>
    /\ UNCHANGED <<records, firstResult, last, arg, out>>

\* main: one turn of `for u in plan: if download_one(u, OUT_DIR): ok += 1`
DownloadOne ==
    /\ pc = "download"
    /\ idx <= Len(plan)
    /\ \E net \in {"ok", "failed"} :
          LET r == download_one(plan[idx], files, net)
          IN  IF r.raised
              THEN /\ pc' = "crashed"
                   /\ UNCHANGED <<files, idx, ok, outcomes>>
              ELSE /\ files' = r.files
                   /\ ok' = IF r.value THEN ok + 1 ELSE ok
                   /\ idx' = idx + 1
                   /\ outcomes' = Append(outcomes, [url |-> plan[idx], result |-> r.result])
                   /\ pc' = pc
    /\ UNCHANGED <<site, limit, existing_ids, plan, seen_ids, max_pages, batches, fault,
                   discovered, saved>>
    /\ UNCHANGED <<records, firstResult, last, arg, out>>

\* the script has ended (all downloads attempted, or exit status 2) and is run again
RunAgain ==
    /\ pc = "exit" \/ (pc = "download" /\ idx > Len(plan))
    /\ pc' = "main"
    /\ saved' = saved \cup { outcomes[k].url : k \in { j \in DOMAIN outcomes : outcomes[j].result = "downloaded" } }
    /\ existing_ids' = {}
    /\ plan' = <<>>
    /\ seen_ids' = {}
    /\ max_pages' = 0
    /\ batches' = <<>>
    /\ fault' = [page |-> 0, item |-> 0]
    /\ discovered' = {}
    /\ idx' = 0
    /\ ok' = 0
    /\ outcomes' = <<>>
    /\ UNCHANGED <<files, site, limit>>
    /\ UNCHANGED <<records, firstResult, last, arg, out>>

NextDl ==
    \/ StartRun
    \/ DiscoverBatch
    \/ ReturnPlan
    \/ DownloadOne
    \/ RunAgain

SpecDl == InitDl /\ [][NextDl]_vars
-----------------------------------------------------------------------------
(* Properties.  The four review rules as the specification words them,     *)
(* stated over the record itself.                                          *)

\* the entries of a list field of a record: none when the field is missing or None
EntriesOf(record, key) ==
    IF key \in DOMAIN record /\ record[key].tag = "list" THEN record[key].items ELSE <<>>

\* a year token stands at position i of s: four digits, the first two 19 or 20,
\* with no word character on either side
IsYearToken(s, i) ==
    /\ i >= 1 /\ i + 3 <= Len(s)
    /\ SubSeq(s, i, i + 1) \in { <<"1", "9">>, <<"2", "0">> }
    /\ s[i + 2] \in DigitChars /\ s[i + 3] \in DigitChars
    /\ i = 1 \/ s[i - 1] \notin WordChars
    /\ i + 3 = Len(s) \/ s[i + 4] \notin WordChars

\* the decimal numeral of a four-digit number
NumeralOf(n) ==
    << Digits[(n \div 1000) + 1], Digits[((n \div 100) % 10) + 1],
       Digits[((n \div 10) % 10) + 1], Digits[(n % 10) + 1] >>

\* the year a token at position i of s names
TokenYear(s, i) == CHOOSE y \in 1900..2099 : NumeralOf(y) = SubSeq(s, i, i + 3)

\* the year tokens of a fragment, as the set of <<position, year>>
YearTokens(s) ==
    { <<i, TokenYear(s, i)>> : i \in { j \in 1..Len(s) : IsYearToken(s, j) } }

\* R1: no entry of sources_mentions normalizes to a name
RuleNoValidSource(record) ==
    \A k \in DOMAIN EntriesOf(record, "sources_mentions") :
        normalize_source_name(EntriesOf(record, "sources_mentions")[k]) = PyNone

\* R2: urls and dataset_candidates are both empty
RuleNoUrlsNoDatasets(record) ==
    EntriesOf(record, "urls") = <<>> /\ EntriesOf(record, "dataset_candidates") = <<>>

\* R3: some fragment of time_mentions holds a year token greater than 2025
RuleFutureYear(record) ==
    \E k \in DOMAIN EntriesOf(record, "time_mentions") :
        \E t \in YearTokens(Str(EntriesOf(record, "time_mentions")[k])) : t[2] > 2025

\* R4: some URL has a gift-card phrase or a pseudo-data domain
RuleSuspiciousUrl(record) ==
    \E k \in DOMAIN EntriesOf(record, "urls") :
        LET u == EntriesOf(record, "urls")[k]
        IN  \/ is_pseudo_data_url(u)
            \/ domain_of(u).domain # <<>> /\ is_pseudo_data_domain(domain_of(u).domain)

\* the engine was called once on the record arg.v
EngineCalled == arg.kind = "record" /\ out.calls = 1

\* the spec's example of a clean record: one real source, one real URL, a past year
CleanExample ==
    MakeRecord(Present(PyStrList(<< <<"W", "o", "r", "l", "d", " ", "B", "a", "n", "k">> >>)),
               Present(PyStrList(<< <<"h", "t", "t", "p", "s", ":", "/", "/", "d", "a", "t", "a", ".", "w", "o", "r", "l", "d", "b", "a", "n", "k", ".", "o", "r", "g", "/", "x">> >>)),
               Missing,
               Present(PyStrList(<< <<"p", "u", "b", "l", "i", "s", "h", "e", "d", " ", "i", "n", " ", "2", "0", "2", "0">> >>)))

\* C1: compute_needs_review_for_record returns true exactly when at least one
\* of R1 (no valid source), R2 (no URLs and no dataset candidates), R3 (a year
\* after 2025) and R4 (a suspicious URL) holds of the record, whatever the other
\* three are; the clean example record gives false.
C1_NeedsReviewIsDisjunction ==
    EngineCalled =>
        /\ ~out.raised
        /\ out.value = (\/ RuleNoValidSource(arg.v)
                        \/ RuleNoUrlsNoDatasets(arg.v)
                        \/ RuleFutureYear(arg.v)
                        \/ RuleSuspiciousUrl(arg.v))
        /\ arg.v = CleanExample => out.value = FALSE

\* C1 witness: a record on which R4 alone holds was flagged
C1_Witness ==
    /\ EngineCalled
    /\ RuleSuspiciousUrl(arg.v)
    /\ ~RuleNoValidSource(arg.v)
    /\ ~RuleNoUrlsNoDatasets(arg.v)
    /\ ~RuleFutureYear(arg.v)
    /\ out.value = TRUE

\* the indices of the records that the rule engine flags now
FlaggedNow == { i \in DOMAIN records : compute_needs_review_for_record(records[i]).value }

\* record i was built by process_one_pdf
IsPipelineRecord(i) == "pdf_name" \in DOMAIN records[i]

\* C2: summarize_needs_review counts under "True" the records the rule engine
\* flags when applied to them now, and under "False" all the others, whatever a
\* record stores as needs_review; the needs_review a pipeline record stores is
\* what the rule engine gives for it now.
C2_ReviewCountsRecomputed ==
    /\ last.op = "summarize_needs_review" =>
          /\ last.ret["True"] = Cardinality(FlaggedNow)
          /\ last.ret["False"] = Len(records) - Cardinality(FlaggedNow)
    /\ \A i \in DOMAIN records :
          IsPipelineRecord(i) =>
              records[i]["needs_review"] = PyBool(compute_needs_review_for_record(records[i]).value)

\* C2 witness: the counts were taken over a pipeline record and a record whose
\* stored needs_review contradicts the rules
C2_Witness ==
    /\ last.op = "summarize_needs_review"
    /\ Len(records) = 2
    /\ \E i \in DOMAIN records : IsPipelineRecord(i)
    /\ \E i \in DOMAIN records :
          /\ "needs_review" \in DOMAIN records[i]
          /\ records[i]["needs_review"] = PyBool(TRUE)
          /\ i \notin FlaggedNow
    /\ last.ret["False"] >= 1

\* C3: normalize_source_name is idempotent: applied to its own result it returns
\* that result (None stays None), and every canonical name of the alias table is
\* kept as it is and is not a pseudo-source.
C3_NormalizeIdempotent ==
    /\ (arg.kind = "name" /\ out.calls = 2) => out.value = out.first
    /\ \A k \in DOMAIN SOURCE_NAME_MAP :
          /\ normalize_source_name(PyStr(SOURCE_NAME_MAP[k])) = PyStr(SOURCE_NAME_MAP[k])
          /\ SOURCE_NAME_MAP[k] \notin PSEUDO_SOURCE_NAMES

\* C3 witness: an alias with padding was sent to its canonical name, and the
\* second application kept it
C3_Witness ==
    /\ arg.kind = "name"
    /\ out.calls = 2
    /\ arg.v = PyStr(<<"\r", "\n", "w", "o", "r", "l", "d", " ", "b", "a", "n", "k", " ", "g", "r", "o", "u", "p", " ">>)
    /\ out.first = PyStr(<<"w", "o", "r", "l", "d", " ", "b", "a", "n", "k">>)
    /\ out.value = PyStr(<<"w", "o", "r", "l", "d", " ", "b", "a", "n", "k">>)

EngineAndAggregatorOps ==
    { "compute_needs_review_for_record", "summarize_sources",
      "summarize_needs_review", "summarize_years" }

C6_FutureYearStrictlyAfterMax ==
    EngineCalled =>
        /\ HasFutureYear(Items(FieldOrEmpty(arg.v, "time_mentions"))) = RuleFutureYear(arg.v)
        /\ ( /\ ~RuleNoValidSource(arg.v)
             /\ ~RuleNoUrlsNoDatasets(arg.v)
             /\ ~RuleSuspiciousUrl(arg.v) ) => out.value = RuleFutureYear(arg.v)

\* C6 witness: a record whose only year is 2025, with no other rule holding,
\* was not flagged
C6_Witness ==
    /\ EngineCalled
    /\ "time_mentions" \in DOMAIN arg.v /\ arg.v["time_mentions"] = PyStrList(<< <<"2", "0", "2", "5">> >>)
    /\ ~RuleNoValidSource(arg.v)
    /\ ~RuleNoUrlsNoDatasets(arg.v)
    /\ ~RuleSuspiciousUrl(arg.v)
    /\ out.value = FALSE

\* every occurrence of a year token in the records' time_mentions, as
\* <<record, fragment, position, year>>
YearOccurrences ==
    { o \in UNION { UNION { { <<i, k, t[1], t[2]>> :
                                t \in YearTokens(Str(EntriesOf(records[i], "time_mentions")[k])) } :
                            k \in DOMAIN EntriesOf(records[i], "time_mentions") } :
                    i \in DOMAIN records } : TRUE }

\* C7: summarize_years counts each occurrence of a year token from 1990 to 2025,
\* both ends included, once, and counts no other year; so no counted year is one
\* that sets the future-year flag.
C7_YearHistogramRange ==
    last.op = "summarize_years" =>
        /\ DOMAIN last.ret \subseteq 1990..2025
        /\ LET occurrences == YearOccurrences
           IN  \A y \in 1990..2025 :
                   Count(last.ret, y) = Cardinality({ o \in occurrences : o[4] = y })
        /\ \A y \in DOMAIN last.ret : ~YearIsFuture(y)

\* C7 witness: 1999 was counted twice, 1990 and 2025 once, and 1989, 2026 and
\* 2099, which occur in the record, not at all
C7_Witness ==
    /\ last.op = "summarize_years"
    /\ Count(last.ret, 1999) = 2
    /\ Count(last.ret, 1990) = 1
    /\ Count(last.ret, 2025) >= 1
    /\ \E o \in YearOccurrences : o[4] = 2099
    /\ \E o \in YearOccurrences : o[4] = 1989
    /\ DOMAIN last.ret \cap {1989, 2026, 2099} = {}

\* the host component of a netloc: what follows the user-info (which ends at
\* the last "@"), without the port; a bracketed host is what the brackets hold
HostOfNetloc(netloc) ==
    LET ats == { i \in 1..Len(netloc) : netloc[i] = "@" }
        h == From(netloc, IF ats = {} THEN 1 ELSE (CHOOSE i \in ats : \A j \in ats : j <= i) + 1)
    IN  IF h # <<>> /\ h[1] = "["
        THEN SubSeq(h, 2, FirstOf(h, 1, {"]"}) - 1)
        ELSE SubSeq(h, 1, FirstOf(h, 1, {":"}) - 1)

\* the lowercase host component of a URL, empty when the URL has none
HostOfUrl(u) ==
    IF u.tag = "None" \/ urlparse_netloc(u.s).raised THEN <<>>
    ELSE Lower(HostOfNetloc(urlparse_netloc(u.s).netloc))

\* R4 by the host component: some URL has a gift-card phrase, or a host that is
\* on the deny-list or contains "stata"
RuleSuspiciousHost(record) ==
    \E k \in DOMAIN EntriesOf(record, "urls") :
        LET u == EntriesOf(record, "urls")[k]
        IN  \/ is_pseudo_data_url(u)
            \/ HostOfUrl(u) \in PSEUDO_DATA_DOMAINS
            \/ Contains(HostOfUrl(u), <<"s", "t", "a", "t", "a">>)

\* C8: the suspicious-URL flag is set exactly when some URL has a gift-card
\* phrase or a host component that is on the deny-list or contains "stata",
\* also when a port or user-info stands next to the host; so the engine returns
\* R1 or R2 or R3 or that.
C8_SuspiciousUrlByHostComponent ==
    EngineCalled =>
        /\ HasSuspiciousDomain(Items(FieldOrEmpty(arg.v, "urls"))).value = RuleSuspiciousHost(arg.v)
        /\ out.value = (\/ RuleNoValidSource(arg.v)
                        \/ RuleNoUrlsNoDatasets(arg.v)
                        \/ RuleFutureYear(arg.v)
                        \/ RuleSuspiciousHost(arg.v))

\* the URL has no gift-card phrase and no domain: it is None, it cannot be
\* parsed, or its network location is empty
HasNoDomain(u) ==
    /\ ~is_pseudo_data_url(u)
    /\ \/ u.tag = "None"
       \/ urlparse_netloc(u.s).raised
       \/ urlparse_netloc(u.s).netloc = <<>>

\* C9: a URL with no gift-card phrase whose domain cannot be parsed or is empty
\* neither sets the suspicious-URL flag nor raises; a record whose URLs are all
\* of this kind is flagged exactly when R1, R2 or R3 holds.
C9_UnparsableUrlFailsOpen ==
    EngineCalled =>
        /\ \A k \in DOMAIN EntriesOf(arg.v, "urls") :
              HasNoDomain(EntriesOf(arg.v, "urls")[k]) =>
                  UrlCheck(EntriesOf(arg.v, "urls")[k]) = Returned(FALSE)
        /\ ( /\ EntriesOf(arg.v, "urls") # <<>>
             /\ \A k \in DOMAIN EntriesOf(arg.v, "urls") : HasNoDomain(EntriesOf(arg.v, "urls")[k]) )
           => /\ ~out.raised
              /\ out.value = (\/ RuleNoValidSource(arg.v)
                              \/ RuleNoUrlsNoDatasets(arg.v)
                              \/ RuleFutureYear(arg.v))

\* C9 witness: a record whose one URL cannot be parsed, with no other rule
\* holding, was not flagged
C9_Witness ==
    /\ EngineCalled
    /\ EntriesOf(arg.v, "urls") = << PyStr(<<"h", "t", "t", "p", ":", "/", "/", "[", "s", "t", "a", "t", "a", ".", "c", "o", "m", "/", "x">>) >>
    /\ urlparse_netloc(<<"h", "t", "t", "p", ":", "/", "/", "[", "s", "t", "a", "t", "a", ".", "c", "o", "m", "/", "x">>).raised
    /\ ~RuleNoValidSource(arg.v)
    /\ ~RuleFutureYear(arg.v)
    /\ ~out.raised
    /\ out.value = FALSE

\* the World Bank document-repository names, plural, singular and group
WorldBankDocumentVariants == {
    <<"d", "o", "c", "u", "m", "e", "n", "t", "s", " ", "o", "f", " ", "t", "h", "e", " ", "w", "o", "r", "l", "d", " ", "b", "a", "n", "k">>,
    <<"d", "o", "c", "u", "m", "e", "n", "t", " ", "o", "f", " ", "t", "h", "e", " ", "w", "o", "r", "l", "d", " ", "b", "a", "n", "k">>,
    <<"d", "o", "c", "u", "m", "e", "n", "t", "s", " ", "o", "f", " ", "w", "o", "r", "l", "d", " ", "b", "a", "n", "k">>,
    <<"d", "o", "c", "u", "m", "e", "n", "t", " ", "o", "f", " ", "w", "o", "r", "l", "d", " ", "b", "a", "n", "k">>,
    <<"d", "o", "c", "u", "m", "e", "n", "t", "s", " ", "o", "f", " ", "t", "h", "e", " ", "w", "o", "r", "l", "d", " ", "b", "a", "n", "k", " ", "g", "r", "o", "u", "p">> }

\* C10: normalize_source_name returns None for every input whose cleaned
\* lowercase form contains one of the World Bank document-repository names,
\* as the whole string or as a part of it.
C10_WorldBankDocumentsDiscarded ==
    ( /\ arg.kind = "name"
      /\ out.calls = 1
      /\ arg.v # PyNone
      /\ \E v \in WorldBankDocumentVariants : Contains(CleanLower(arg.v), v) )
    => out.value = PyNone

\* process_one_pdf was called once on the file whose extracted texts are arg.v
PdfCalled == arg.kind = "pdf" /\ out.calls = 1

\* the text the pipeline is to work on: the primary extraction when it has at
\* least 60 characters once stripped, the fallback's otherwise
ExtractedText ==
    IF Len(Strip(arg.v[1])) >= 60 THEN arg.v[1] ELSE arg.v[2]

\* C11: the pipeline works on the primary text only if its stripped length is
\* at least 60 and on the fallback's text otherwise; when that text is empty the
\* record has no sources, no years, no URLs, has_downloadable_data_ai false and
\* needs_review true, R1 and R2 both holding.
C11_EmptyExtractionFlagsRecord ==
    PdfCalled =>
        /\ out.value["time_mentions"] = PyStrList(<< normalize_text(ExtractedText) >>)
        /\ ExtractedText = <<>> =>
              /\ out.value["sources_mentions"] = PyList(<<>>)
              /\ out.value["years_ai"] = PyList(<<>>)
              /\ out.value["urls"] = PyList(<<>>)
              /\ out.value["has_downloadable_data_ai"] = PyBool(FALSE)
              /\ out.value["needs_review"] = PyBool(TRUE)
              /\ RuleNoValidSource(out.value)
              /\ RuleNoUrlsNoDatasets(out.value)

\* C11 witness: the primary extraction gave a short text among blanks, the
\* fallback nothing, and the record was flagged
C11_Witness ==
    /\ PdfCalled
    /\ Len(arg.v[1]) >= 60
    /\ Len(Strip(arg.v[1])) < 60
    /\ arg.v[2] = <<>>
    /\ out.value["urls"] = PyList(<<>>)
    /\ out.value["needs_review"] = PyBool(TRUE)

\* C12: the text normalize_text returns holds no hyphen directly followed by a
\* newline, whatever the input: also when the hyphen comes from an en-dash,
\* em-dash or minus sign, when the line break was a carriage return, and when
\* blanks stood between the hyphen and the newline; "co-\noperation" gives
\* "cooperation".
C12_NoHyphenBeforeNewline ==
    (arg.kind = "raw" /\ out.calls = 1) =>
        /\ ~Contains(out.value, << "-", LF >>)
        /\ arg.v = <<"c", "o", "-", "\n", "o", "p", "e", "r", "a", "t", "i", "o", "n">> => out.value = <<"c", "o", "o", "p", "e", "r", "a", "t", "i", "o", "n">>

\* the orders in which n records can be listed
RecordOrders(n) == { p \in [1..n -> 1..n] : \A i, j \in 1..n : p[i] = p[j] => i = j }

\* the sequence rs in the order p
Permuted(rs, p) == [i \in 1..Len(rs) |-> rs[p[i]]]

\* the sum of two counters, key by key
CounterSum(a, b) == [k \in DOMAIN a \cup DOMAIN b |-> Count(a, k) + Count(b, k)]

\* C13: each aggregator returns the same counts for the records in any order,
\* and for the records split in two at any place the counts of the whole are the
\* sums of the counts of the two parts.
C13_AggregationOrderIndependent ==
    /\ last.op = "summarize_sources" =>
          /\ \A p \in RecordOrders(Len(records)) :
                 summarize_sources(Permuted(records, p)) = last.ret
          /\ \A k \in 0..Len(records) :
                 CounterSum(summarize_sources(SubSeq(records, 1, k)),
                            summarize_sources(SubSeq(records, k + 1, Len(records)))) = last.ret
    /\ last.op = "summarize_needs_review" =>
          /\ \A p \in RecordOrders(Len(records)) :
                 summarize_needs_review(Permuted(records, p)) = last.ret
          /\ \A k \in 0..Len(records) :
                 CounterSum(summarize_needs_review(SubSeq(records, 1, k)),
                            summarize_needs_review(SubSeq(records, k + 1, Len(records)))) = last.ret
    /\ last.op = "summarize_years" =>
          /\ \A p \in RecordOrders(Len(records)) :
                 summarize_years(Permuted(records, p)) = last.ret
          /\ \A k \in 0..Len(records) :
                 CounterSum(summarize_years(SubSeq(records, 1, k)),
                            summarize_years(SubSeq(records, k + 1, Len(records)))) = last.ret

\* C13 witness: the sources were counted over two different records that name
\* the same source
C13_Witness ==
    /\ last.op = "summarize_sources"
    /\ Len(records) = 2
    /\ records[1] # records[2]
    /\ \E k \in DOMAIN last.ret :
          /\ Count(summarize_sources(<< records[1] >>), k) >= 1
          /\ Count(summarize_sources(<< records[2] >>), k) >= 1

\* the fixed phrase list, each phrase with its canonical name
FixedPhraseList == <<
    << <<"w", "o", "r", "l", "d", " ", "b", "a", "n", "k">>, <<"w", "o", "r", "l", "d", " ", "b", "a", "n", "k">> >>,
    << <<"w", "o", "r", "l", "d", " ", "b", "a", "n", "k", " ", "g", "r", "o", "u", "p">>, <<"w", "o", "r", "l", "d", " ", "b", "a", "n", "k">> >>,
    << <<"w", "d", "i">>, <<"w", "o", "r", "l", "d", " ", "d", "e", "v", "e", "l", "o", "p", "m", "e", "n", "t", " ", "i", "n", "d", "i", "c", "a", "t", "o", "r", "s">> >>,
    << <<"w", "o", "r", "l", "d", " ", "d", "e", "v", "e", "l", "o", "p", "m", "e", "n", "t", " ", "i", "n", "d", "i", "c", "a", "t", "o", "r", "s">>, <<"w", "o", "r", "l", "d", " ", "d", "e", "v", "e", "l", "o", "p", "m", "e", "n", "t", " ", "i", "n", "d", "i", "c", "a", "t", "o", "r", "s">> >>,
    << <<"p", "i", "p">>, <<"p", "o", "v", "e", "r", "t", "y", " ", "a", "n", "d", " ", "i", "n", "e", "q", "u", "a", "l", "i", "t", "y", " ", "p", "l", "a", "t", "f", "o", "r", "m">> >>,
    << <<"p", "o", "v", "e", "r", "t", "y", " ", "a", "n", "d", " ", "i", "n", "e", "q", "u", "a", "l", "i", "t", "y", " ", "p", "l", "a", "t", "f", "o", "r", "m">>, <<"p", "o", "v", "e", "r", "t", "y", " ", "a", "n", "d", " ", "i", "n", "e", "q", "u", "a", "l", "i", "t", "y", " ", "p", "l", "a", "t", "f", "o", "r", "m">> >>,
    << <<"i", "m", "f">>, <<"i", "n", "t", "e", "r", "n", "a", "t", "i", "o", "n", "a", "l", " ", "m", "o", "n", "e", "t", "a", "r", "y", " ", "f", "u", "n", "d">> >>,
    << <<"i", "n", "t", "e", "r", "n", "a", "t", "i", "o", "n", "a", "l", " ", "m", "o", "n", "e", "t", "a", "r", "y", " ", "f", "u", "n", "d">>, <<"i", "n", "t", "e", "r", "n", "a", "t", "i", "o", "n", "a", "l", " ", "m", "o", "n", "e", "t", "a", "r", "y", " ", "f", "u", "n", "d">> >>,
    << <<"w", "o", "r", "l", "d", " ", "h", "e", "a", "l", "t", "h", " ", "o", "r", "g", "a", "n", "i", "z", "a", "t", "i", "o", "n">>, <<"w", "o", "r", "l", "d", " ", "h", "e", "a", "l", "t", "h", " ", "o", "r", "g", "a", "n", "i", "z", "a", "t", "i", "o", "n">> >>,
    << <<"w", "h", "o">>, <<"w", "h", "o">> >>,
    << <<"u", "n", "i", "c", "e", "f">>, <<"u", "n", "i", "c", "e", "f">> >>,
    << <<"u", "n", "e", "s", "c", "o">>, <<"u", "n", "e", "s", "c", "o">> >> >>

\* the canonical names of the phrases that occur in the lowercased text, in the
\* order of the phrase list, each name at its first place only
CanonicalNamesIn(text) ==
    LET hits == SelectSeq(FixedPhraseList, LAMBDA e : Contains(Lower(text), e[1]))
        firsts == SelectSeq(Positions(hits), LAMBDA i : \A j \in 1..(i - 1) : hits[j][2] # hits[i][2])
    IN  [k \in 1..Len(firsts) |-> hits[firsts[k]][2]]

ExtractorCalled == arg.kind = "text" /\ out.calls = 1 /\ arg.v # PyNone

\* C17: sources_ai is the list of the canonical names of the listed phrases that
\* occur in the lowercased text, in list order and without repetition; each of
\* its elements is returned unchanged by normalize_source_name; and a pipeline
\* record has no valid source (R1) exactly when its list of sources is empty.
C17_SourcesAiCanonicalInOrder ==
    /\ ExtractorCalled =>
          /\ out.value.sources_ai = CanonicalNamesIn(arg.v.s)
          /\ \A k \in DOMAIN out.value.sources_ai :
                 normalize_source_name(PyStr(out.value.sources_ai[k])) = PyStr(out.value.sources_ai[k])
    /\ PdfCalled =>
          (RuleNoValidSource(out.value) <=> out.value["sources_mentions"] = PyList(<<>>))

\* C17 witness: a text that names the fund before the bank, and the fund twice
C17_Witness ==
    /\ ExtractorCalled
    /\ Contains(arg.v.s, <<"I", "M", "F", ",", " ", "t", "h", "e", "n">>)
    /\ out.value.sources_ai = << <<"w", "o", "r", "l", "d", " ", "b", "a", "n", "k">>, <<"p", "o", "v", "e", "r", "t", "y", " ", "a", "n", "d", " ", "i", "n", "e", "q", "u", "a", "l", "i", "t", "y", " ", "p", "l", "a", "t", "f", "o", "r", "m">>,
                                 <<"i", "n", "t", "e", "r", "n", "a", "t", "i", "o", "n", "a", "l", " ", "m", "o", "n", "e", "t", "a", "r", "y", " ", "f", "u", "n", "d">>, <<"w", "h", "o">>, <<"u", "n", "e", "s", "c", "o">> >>

C18_WitnessRepeated ==
    /\ ExtractorCalled
    /\ Contains(arg.v.s, <<"2", "0", "0", "1", ",", " ", "2", "0", "0", "1", ",", " ", "1", "9", "9", "9", "x", " ", "1", "2", "0", "2", "0", " ", "2", "0", "0", "0">>)
    /\ out.value.years_ai = << 2000, 2001 >>

\* the catalog ID of a URL, None when it has none
CatalogIdOf(url) == extract_catalog_id_from_url(url)

\* C14: at every moment every URL of the plan has a catalog ID, that ID is not
\* in existing_ids, and no two URLs of the plan have the same catalog ID.
C14_PlanFreshAndDistinct ==
    \A i \in DOMAIN plan :
        /\ CatalogIdOf(plan[i]) # PyNone
        /\ CatalogIdOf(plan[i]).s \notin existing_ids
        /\ \A j \in DOMAIN plan : CatalogIdOf(plan[j]) = CatalogIdOf(plan[i]) => j = i

\* C14 witness: a plan of two URLs returned after two batches that discovered a
\* URL of an entry already downloaded, a URL with no catalog ID and the URL the
\* plan starts with
C14_Witness ==
    /\ pc = "download"
    /\ Len(plan) = 2
    /\ Len(batches) >= 2
    /\ plan[1] \in discovered
    /\ \E u \in discovered : CatalogIdOf(u) = PyNone
    /\ \E u \in discovered : CatalogIdOf(u) # PyNone /\ CatalogIdOf(u).s \in existing_ids

\* build_download_plan has returned its plan to main
PlanReturned == pc \in {"download", "exit"}

\* the catalog IDs, not in existing_ids, of the seeds and of the URLs discovered
NewIdsOnOffer ==
    { CatalogIdOf(u) : u \in Range(SEED_README_URLS) \cup discovered }
        \ ({PyNone} \cup { PyStr(c) : c \in existing_ids })

\* C15: the plan returned holds at most limit URLs, for every limit from 0 on;
\* and it holds exactly limit URLs when the seeds and the pools discovered offer
\* at least limit catalog IDs that are not in existing_ids.
C15_PlanAtMostLimit ==
    PlanReturned =>
        /\ Len(plan) <= limit
        /\ Cardinality(NewIdsOnOffer) >= limit => Len(plan) = limit

\* the calls of download_one made so far in this run that returned True
Succeeded == { k \in DOMAIN outcomes : outcomes[k].result \in {"downloaded", "present"} }

\* C16: no call of download_one ends the run with an exception; the calls made
\* so far are one for each of the first URLs of the plan, in plan order; ok
\* counts the calls that found the file present or saved it; and when main has
\* left the loop every URL of the plan has had its call.
C16_FailedDownloadNotFatal ==
    /\ pc # "crashed"
    /\ pc = "download" =>
          /\ Len(outcomes) = idx - 1
          /\ Len(outcomes) <= Len(plan)
          /\ \A k \in DOMAIN outcomes : outcomes[k].url = plan[k]
          /\ ok = Cardinality(Succeeded)

\* C16 witness: all URLs of a plan of two were attempted, the first download
\* failed and the second was saved
C16_Witness ==
    /\ pc = "download"
    /\ Len(plan) = 2
    /\ idx = 3
    /\ outcomes[1].result = "failed"
    /\ outcomes[2].result = "downloaded"
    /\ ok = 1

\* the file of every URL saved in this run is recognized as the URL's catalog ID
SavedFilesRecognized ==
    \A k \in DOMAIN outcomes :
        outcomes[k].result = "downloaded" =>
            CatalogIdOf(outcomes[k].url).s \in list_existing_catalog_ids(files)

\* no URL of the plan has the catalog ID of a URL saved in an earlier run
SavedNeverPlannedAgain ==
    \A u \in saved : \A i \in DOMAIN plan : CatalogIdOf(plan[i]) # CatalogIdOf(u)

\* C19: once download_one has saved the file of a planned URL, the folder's
\* listing of catalog IDs holds that URL's catalog ID, and no later run plans a
\* URL with that catalog ID; this for every link the crawler collects, those
\* taken for their anchor text and named otherwise than README.pdf included.
C19_DedupAcrossRuns == SavedFilesRecognized /\ SavedNeverPlannedAgain

\* the while loop of build_download_plan goes on
LoopGoesOn == Len(plan) < limit /\ max_pages <= hard_cap_pages

\* the calls of auto_discover_batch made for this plan: at most 10, with
\* max_pages 30, 60, ..., 300; after the 10th the loop is left; a plan that falls
\* short of limit is returned only after all 10; a first batch whose first
\* listing page fails discovers nothing
BatchesBounded ==
    /\ Len(batches) <= 10
    /\ \A k \in DOMAIN batches : batches[k] = 30 * k
    /\ (pc = "expand" /\ Len(batches) = 10) => ~LoopGoesOn
    /\ (PlanReturned /\ Len(plan) < limit) => Len(batches) = 10
    /\ (Len(batches) = 1 /\ fault.page = 1) => discovered = {}

\* a call of auto_discover_batch is made only while the plan is short of limit,
\* and once the plan holds limit URLs the next step returns it
BatchOnlyWhenShort ==
    /\ (batches' # batches /\ batches' # <<>>) => Len(plan) < limit
    /\ (pc = "expand" /\ Len(plan) >= limit) => PlanReturned'

\* C20: build_download_plan terminates: its loop makes at most 10 calls of
\* auto_discover_batch, with max_pages 30, 60, ..., 300, and is then left with the
\* partial plan; it makes no call once the plan holds limit URLs; and a failed
\* request for a listing page ends the discovery of that batch, the loop going on.
C20_PlanningTerminates == []BatchesBounded /\ [][BatchOnlyWhenShort]_vars

\* C20 witness: a partial plan returned after 10 batches, the last with 300
\* pages and a listing page that failed
C20_Witness ==
    /\ PlanReturned
    /\ Len(batches) = 10
    /\ batches[10] = 300
    /\ Len(plan) < limit
    /\ fault.page > 0

-----------------------------------------------------------------------------
(* The batch export *)

\* parse_pdfs_to_csv was called once on the folder arg.v
BatchCalled == arg.kind = "folder" /\ out.calls = 1

\* the file of the folder a row was written for
FileOfRow(row) == CHOOSE f \in Range(arg.v.folder) : f.path = row.pdf_path

\* the normalized text of a file: of its primary extraction when that has at least
\* 60 characters once stripped, of the fallback's otherwise
BatchText(f) ==
    normalize_text(IF Len(Strip(f.pdfminer)) >= 60 THEN f.pdfminer ELSE f.pypdf)

\* the record the rules are applied to for a text: the extractor's sources, the
\* whole text as the only time mention, the URLs of the text, no dataset candidates
BatchRecord(text) ==
    ("sources_mentions" :> PyStrList(ai_extract_metadata(PyStr(text)).sources_ai)) @@
    ("time_mentions" :> PyStrList(<< text >>)) @@
    ("urls" :> PyStrList(extract_urls_from_text(text))) @@
    ("dataset_candidates" :> PyList(<<>>))

\* the parts of a cell of values joined by "; "
CellParts(cell) ==
    LET starts == SelectSeq(Positions(cell),
                            LAMBDA i : i = 1 \/ (i > 2 /\ SubSeq(cell, i - 2, i - 1) = <<";", " ">>))
    IN  { SubSeq(cell, starts[k],
                 IF k < Len(starts) THEN starts[k + 1] - 3 ELSE Len(cell)) : k \in DOMAIN starts }

RECURSIVE DecimalValue(_)
\* the number a decimal numeral names
DecimalValue(s) ==
    IF s = <<>> THEN 0
    ELSE 10 * DecimalValue(SubSeq(s, 1, Len(s) - 1)) + ValueOf[s[Len(s)]]

\* the years a years_ai cell lists
CellYears(cell) == { DecimalValue(p) : p \in CellParts(cell) }

\* the years the extractor returns for a text, none clipped
UnclippedYears(text) == Range(ai_extract_metadata(PyStr(text)).years_ai)

\* the first half of the claim: every part of the years_ai cell is a numeral of a
\* year in 1990..2025 that the extractor returned for the text, and needs_review
\* is what the four rules give on the record of the unclipped text
RowClippedFlagUnclipped(row, text) ==
    /\ \A p \in CellParts(row.years_ai) : p # <<>> /\ Range(p) \subseteq DigitChars
    /\ CellYears(row.years_ai) \subseteq (MIN_VALID_YEAR..MAX_VALID_YEAR) \cap UnclippedYears(text)
    /\ row.needs_review \in { <<"T", "r", "u", "e">>, <<"F", "a", "l", "s", "e">> }
    /\ row.needs_review = <<"T", "r", "u", "e">> <=>
          \/ RuleNoValidSource(BatchRecord(text))
          \/ RuleNoUrlsNoDatasets(BatchRecord(text))
          \/ RuleFutureYear(BatchRecord(text))
          \/ RuleSuspiciousUrl(BatchRecord(text))

\* the sources and URLs of the row are clean: none of R1, R2 and R4 holds
RowIsClean(text) ==
    /\ ~RuleNoValidSource(BatchRecord(text))
    /\ ~RuleNoUrlsNoDatasets(BatchRecord(text))
    /\ ~RuleSuspiciousUrl(BatchRecord(text))

\* C21: in every row of the batch CSV each year of the years_ai column lies in
\* 1990..2025 and is one of the extractor's years for the text, and needs_review
\* is computed on the unclipped text; and in a row whose sources and URLs are
\* clean needs_review is true exactly when the extractor's unclipped years hold
\* a year after 2025.
C21_BatchYearsClippedFlagUnclipped ==
    BatchCalled =>
        \A k \in DOMAIN out.value.rows :
            /\ RowClippedFlagUnclipped(out.value.rows[k], BatchText(FileOfRow(out.value.rows[k])))
            /\ RowIsClean(BatchText(FileOfRow(out.value.rows[k]))) =>
                  (out.value.rows[k].needs_review = <<"T", "r", "u", "e">> <=>
                       \E y \in UnclippedYears(BatchText(FileOfRow(out.value.rows[k]))) :
                           y > MAX_VALID_YEAR)

\* the first half of C21 alone: the column is clipped, the flag is not
C21_ColumnClippedFlagUnclipped ==
    BatchCalled =>
        \A k \in DOMAIN out.value.rows :
            RowClippedFlagUnclipped(out.value.rows[k], BatchText(FileOfRow(out.value.rows[k])))

\* the second half of C21 for the texts without the capital I with a dot, and
\* for all texts the half of it that survives: a clean row that is flagged has a
\* year after 2025 among the extractor's
C21_CleanRowFlagWithoutDottedI ==
    BatchCalled =>
        \A k \in DOMAIN out.value.rows :
            LET text == BatchText(FileOfRow(out.value.rows[k]))
                future == \E y \in UnclippedYears(text) : y > MAX_VALID_YEAR
            IN  RowIsClean(text) =>
                    /\ out.value.rows[k].needs_review = <<"T", "r", "u", "e">> => future
                    /\ "U+0130" \notin Range(text) =>
                           (out.value.rows[k].needs_review = <<"T", "r", "u", "e">> <=> future)

\* a row flagged by R3 alone whose years_ai column lists years, none after 2025
C21_FlaggedByUnlistedYear ==
    /\ BatchCalled
    /\ \E k \in DOMAIN out.value.rows :
           /\ RowIsClean(BatchText(FileOfRow(out.value.rows[k])))
           /\ out.value.rows[k].needs_review = <<"T", "r", "u", "e">>
           /\ CellYears(out.value.rows[k].years_ai) # {}
           /\ \A y \in CellYears(out.value.rows[k].years_ai) : y <= MAX_VALID_YEAR

\* a clean row that is not flagged although the extractor returned a year after
\* 2025 for its text
C21_UnflaggedFutureYear ==
    /\ BatchCalled
    /\ \E k \in DOMAIN out.value.rows :
           /\ RowIsClean(BatchText(FileOfRow(out.value.rows[k])))
           /\ out.value.rows[k].needs_review = <<"F", "a", "l", "s", "e">>
           /\ \E y \in UnclippedYears(BatchText(FileOfRow(out.value.rows[k]))) : y > MAX_VALID_YEAR
=============================================================================
